---- MODULE Spec2Model ----
(***************************************************************************)
(* Opportunity-to-trade execution pipeline of the arbitrage bot.           *)
(*                                                                         *)
(* router-executor : services/scanner-options-arb/src/index.js (353-724)   *)
(* order-simulator : unnamed/part_003                                      *)
(* accounting      : services/portfolio-accounting/src/index.js            *)
(* risk engine     : services/risk-slippage-engine/src/index.js            *)
(* trade assembler : inject-trade.sh (355-481)                             *)
(* scanner         : services/exchange-adapter-deribit/src/index.js        *)
(*                   (270-565, scanner-spot-arb) and                       *)
(*                   services/scanner-options-arb/src/index.js (20-352)    *)
(* api-gateway     : services/api-gateway/src/index.js (toggle routes)     *)
(*                                                                         *)
(* The bus is a set of append-only streams.  A consumer group reads with   *)
(* XREADGROUP ... '>' : it is handed the entries after the last one it was *)
(* handed, and acknowledges entries with XACK.  An entry that was handed   *)
(* out and never acknowledged stays pending; no service re-reads pending   *)
(* entries.                                                                *)
(*                                                                         *)
(* A handler runs without interleaving between two awaits (single-threaded *)
(* event loop).  A consumer loop is cut at the reply of its XREADGROUP and *)
(* between the entries of a batch: one action handles one entry, from the  *)
(* reply of the previous entry's XACK to the XACK of this one.  A bus      *)
(* command is taken to act when it is issued.                              *)
(***************************************************************************)
EXTENDS Integers, Sequences, FiniteSets, TLC

\* ------------------------------------------------------------------ bounds
MaxExternal == 2    \* entries written to the streams from outside the pipeline
                    \* (scanner Opportunities, approved Opportunities, entries
                    \* written by operator scripts)

MaxFills == 3       \* Fills on orders.fills when the trade assembler is
                    \* studied on its own

\* --------------------------------------------------------- program constants
MIN_REALIZED_PNL == 0
OPP_COUNT == 20
FILL_COUNT == 50
SIM_COUNT == 50
ACCT_COUNT == 20

\* ------------------------------------------------------------------- data
Leg(venue, side, estPx, size) ==
    [venue |-> venue, side |-> side, estPx |-> estPx, size |-> size]

\* Opportunity payloads the producers can publish.  costs is the sum
\* fees + slippage + borrow in units of 1/10000.
Catalog ==
    << [legs |-> << Leg("v1", "BUY", 100, 1), Leg("v2", "SELL", 101, 1) >>,
        approved |-> FALSE, paper |-> TRUE, costs |-> 0],
       [legs |-> << Leg("v1", "BUY", 100, 1), Leg("v2", "SELL", 102, 1),
                    Leg("v3", "SELL", 103, 1) >>,
        approved |-> TRUE, paper |-> FALSE, costs |-> 0],
       [legs |-> << Leg("v1", "SELL", 100, 1), Leg("v2", "BUY", 101, 1) >>,
        approved |-> TRUE, paper |-> TRUE, costs |-> 0],
       [legs |-> << Leg("v1", "SELL", 100, 1) >>,
        approved |-> FALSE, paper |-> TRUE, costs |-> 0] >>

Templates == 1..Len(Catalog)
CorrIds == 1..MaxExternal

\* A stream entry whose data field is not JSON.
Poison == [id |-> 0, tpl |-> 0]

\* mode "": the Fill has no payload.mode
Fill(corrId, legIndex, venue, side, px, requestedSize, filledSize) ==
    [corrId |-> corrId, legIndex |-> legIndex, venue |-> venue, side |-> side,
     px |-> px, requestedSize |-> requestedSize, filledSize |-> filledSize,
     mode |-> ""]
NoFill == Fill(0, 0, "", "", 0, 0, 0)
PoisonFill == Fill(-1, 0, "", "", 0, 0, 0)

\* payload { corrId, legIndex, tif, ...leg }: no mode is written (mode "")
Order(corrId, legIndex, leg) ==
    [corrId |-> corrId, legIndex |-> legIndex, leg |-> leg, mode |-> ""]
PoisonOrder == Order(-1, 0, Leg("", "", 0, 0))

\* ghost field corr: the corrId the Trade was computed for
Trade(corr, mode, realizedPnl, taken, approved, source) ==
    [corr |-> corr, mode |-> mode, realizedPnl |-> realizedPnl, taken |-> taken,
     approved |-> approved, source |-> source]
PoisonTrade == Trade(-1, "", 0, FALSE, FALSE, "")

NoEntry == [tpl |-> 0, legs |-> << >>, fills |-> [k \in 0..1 |-> NoFill]]

StoreVals == {"nil", "true", "false"}

VARIABLES
    kvAuto,        \* key toggles:autoTrade of the key-value view ("nil": absent)
    AUTO_TRADE,    \* the executor's in-memory toggle
    inflight,      \* corrId -> { opp, legs, fills } or NoEntry
    oppStream,     \* arb.opportunities
    approvedStream,\* arb.approved
    ordersNew,     \* orders.new
    ordersFills,   \* orders.fills
    arbTrades,     \* arb.trades
    delivered,     \* group -> index of the last entry handed to the group
    acks,          \* group -> entry index -> number of XACKs issued for it
    loop,          \* group -> position of its consumer loop
    external,      \* entries written from outside the pipeline so far
    hist,          \* history: what the executor has done, per corrId
    riskStream,    \* scanner.to.risk
    riskCfg,       \* the risk engine's policy thresholds (process.env)
    pending,       \* the assembler's join buffer: corrId -> its Fills so far
    clock,         \* the wall clock, in ms
    tokens,        \* the scanner's token bucket, in 1/TokenScale of a token
    lastRefill,    \* the clock value of the last takeToken call
    scan,          \* position of the scan tick in progress
    scanCfg,       \* the scanner's admission thresholds (process.env)
    meta,          \* option venue -> the native ids it lists
    intersection,  \* scanner-options: the discovered pairs
    lastDiscover,  \* scanner-options: second of the last discovery
    service,       \* which scanner the process is: "spot" or "options"
    spotMeta,      \* spot venue -> the value of meta:<venue>:symbols
    spot,          \* scanner-spot-arb: discovered, lastDiscover, symbols
    optMeta,       \* option venue -> is the meta key there, order-book keys
    read,          \* the last tick went on to MGET the books
    peer           \* a second executor instance: its inflight table and loops

discVars == << service, spotMeta, spot, optMeta, read >>

\* the scanners' variables, and the second executor instance, which the
\* scanners and the first instance leave alone
scanVars == << clock, tokens, lastRefill, scan, scanCfg, meta, intersection,
               lastDiscover, discVars, peer >>

vars == << kvAuto, AUTO_TRADE, inflight, oppStream, approvedStream, ordersNew,
           ordersFills, arbTrades, delivered, acks, loop, external, hist,
           riskStream, riskCfg, pending, scanVars >>

\* executor on arb.opportunities, arb.approved and orders.fills; simulator on
\* orders.new; accounting on arb.trades; risk engine on scanner.to.risk;
\* assembler on orders.fills
Groups == {"execOpp", "execApproved", "execFill", "sim", "acct", "risk", "asm"}
MaxStream == 2 * MaxExternal
Idle == [pc |-> "idle", i |-> 0, hi |-> 0]

Min(a, b) == IF a < b THEN a ELSE b

\* ------------------------------------------------------------ pure helpers
\* s.trim().toLowerCase() on the strings that occur
Norm(s) ==
    CASE s = "TRUE" -> "true"
      [] s = " Off " -> "off"
      [] OTHER -> s

\* parseBool(v, def) for a string v: def is not used for a string
parseBool(v) == Norm(v) \in {"true", "1", "yes", "on"}

tradingEnabled == AUTO_TRADE

\* findIndex of the first SELL leg, 0 when there is none
FirstSellIndex(legs) ==
    IF \E i \in 1..Len(legs) : legs[i].side = "SELL"
    THEN CHOOSE i \in 1..Len(legs) :
            /\ legs[i].side = "SELL"
            /\ \A j \in 1..(i - 1) : legs[j].side # "SELL"
    ELSE 0

\* legs.filter((_, i) => i !== idx)
Without(legs, idx) ==
    [k \in 1..(Len(legs) - 1) |-> IF k < idx THEN legs[k] ELSE legs[k + 1]]

\* variant: the last SELL leg is the one moved to the front
protectiveFirst_lastSell(legs) ==
    LET sells == {i \in 1..Len(legs) : legs[i].side = "SELL"}
        idx   == IF sells = {} THEN 0
                 ELSE CHOOSE i \in sells : \A j \in sells : j <= i
    IN  IF idx > 0 THEN << legs[idx] >> \o Without(legs, idx) ELSE legs

protectiveFirst(legs) ==
    LET idx == FirstSellIndex(legs)
    IN  IF idx > 0 THEN << legs[idx] >> \o Without(legs, idx) ELSE legs

\* Sum of f over the leg indexes 0..1
SumFills(fills, f(_)) == f(fills[0]) + f(fills[1])

sgn(side) == IF side = "SELL" THEN 1 ELSE IF side = "BUY" THEN -1 ELSE 0

FirstOfSide(legs, side) ==
    IF \E i \in 1..Len(legs) : legs[i].side = side
    THEN LET i == CHOOSE i \in 1..Len(legs) :
                     /\ legs[i].side = side
                     /\ \A j \in 1..(i - 1) : legs[j].side # side
         IN  legs[i].estPx
    ELSE 0

\* realized PnL of the recorded fills, in units of 1/20000 (mid is a half,
\* costs are in 1/10000).  A hole of the fills array counts for nothing.
computePnlFromFills(tpl, fills) ==
    LET legs  == Catalog[tpl].legs
        G(f)  == IF f = NoFill THEN 0 ELSE sgn(f.side) * f.px * f.filledSize
        Q(f)  == IF f = NoFill THEN 0 ELSE f.filledSize
        gross == SumFills(fills, G)
        qty   == SumFills(fills, Q)
        buy   == FirstOfSide(legs, "BUY")
        sell  == FirstOfSide(legs, "SELL")
        mid2  == IF buy # 0 /\ sell # 0 THEN buy + sell ELSE 0
        fees  == IF mid2 # 0 /\ qty # 0 THEN Catalog[tpl].costs * qty * mid2 ELSE 0
    IN  20000 * gross - fees

\* variant: sendOrder without the tradingEnabled guard of line 503
sendOrder_unguarded(corrId, legIndex, leg) ==
    Append(ordersNew, Order(corrId, legIndex, leg))

\* sendOrder: the orders.new stream after the call
sendOrder(corrId, legIndex, leg) ==
    IF ~tradingEnabled THEN ordersNew
    ELSE Append(ordersNew, Order(corrId, legIndex, leg))

\* variant: a PnL equal to the floor passes the filter
emitTrade_atFloor(tpl, fills) ==
    IF ~tradingEnabled THEN "skip"
    ELSE IF ~(computePnlFromFills(tpl, fills) >= 20000 * MIN_REALIZED_PNL) THEN "skip"
    ELSE "throw"

\* emitTrade: "skip" when it returns without a Trade, "throw" when it raises.
\* Line 568 reads the identifier `approved`, which no scope of the module
\* binds: building the trade object raises a ReferenceError before the xadd.
emitTrade(tpl, fills) ==
    IF ~tradingEnabled THEN "skip"
    ELSE IF ~(computePnlFromFills(tpl, fills) > 20000 * MIN_REALIZED_PNL) THEN "skip"
    ELSE "throw"

\* ------------------------------------------------------------ bus helpers
\* XREADGROUP ... COUNT count STREAMS stream '>' answered: the entries after
\* the group's last delivered one, or nothing (the BLOCK deadline passed).
XReadGroup(g, stream, count) ==
    IF Len(stream) > delivered[g]
    THEN LET hi == Min(Len(stream), delivered[g] + count)
         IN  /\ delivered' = [delivered EXCEPT ![g] = hi]
             /\ loop' = [loop EXCEPT ![g] = [pc |-> "msg", i |-> delivered[g] + 1, hi |-> hi]]
    ELSE /\ delivered' = delivered
         /\ loop' = [loop EXCEPT ![g] = Idle]

\* XACK of the entry the loop of g is at, applied to the counts a
XAck(a, g) == [a EXCEPT ![g][loop[g].i] = @ + 1]

\* the loop of g goes on to the next entry of its batch, or returns
NextMsg(g) ==
    IF loop[g].i < loop[g].hi
    THEN [loop EXCEPT ![g] = [pc |-> "msg", i |-> loop[g].i + 1, hi |-> loop[g].hi]]
    ELSE [loop EXCEPT ![g] = Idle]

At(g, pc) == [loop EXCEPT ![g].pc = pc]

\* ------------------------------------------------------------- history
HasOrder(c, k) == \E n \in 1..Len(ordersNew) :
                     ordersNew[n].corrId = c /\ ordersNew[n].legIndex = k

\* corrIds whose leg 0 Order is out and whose leg 0 Fill the executor has
\* not processed
AwaitingLeg0 == {c \in CorrIds : HasOrder(c, 0) /\ c \notin hist.leg0Seen}

Paused(next) ==
    IF AUTO_TRADE /\ ~next
    THEN [hist EXCEPT !.paused = @ \cup AwaitingLeg0]
    ELSE hist

\* corrIds whose entry inflight.clear() removed and that were not registered
\* since
Flushed(h, next) ==
    IF AUTO_TRADE /\ ~next
    THEN [h EXCEPT !.flushed = @ \cup {c \in CorrIds : inflight[c] # NoEntry}]
    ELSE h

Registered(c) == [hist EXCEPT !.flushed = @ \ {c}]

\* ------------------------------------------------------------- toggles
\* refreshToggles (setInterval 1000): the reply of the two GETs is applied
refreshToggles ==
    /\ IF kvAuto # "nil" /\ parseBool(kvAuto) # AUTO_TRADE
       THEN /\ AUTO_TRADE' = parseBool(kvAuto)
            /\ inflight' = IF AUTO_TRADE /\ ~parseBool(kvAuto)
                           THEN [c \in CorrIds |-> NoEntry]
                           ELSE inflight
            /\ hist' = Flushed(Paused(parseBool(kvAuto)), parseBool(kvAuto))
       ELSE UNCHANGED << AUTO_TRADE, inflight, hist >>
    /\ UNCHANGED << kvAuto, oppStream, approvedStream, ordersNew, ordersFills,
                    arbTrades, delivered, acks, loop, external >>
    /\ UNCHANGED << riskStream, riskCfg, scanVars, pending >>

\* POST /toggles of the executor with body { autoTrade }
postToggles(autoTrade) ==
    /\ kvAuto' = IF autoTrade THEN "true" ELSE "false"
    /\ AUTO_TRADE' = autoTrade
    /\ hist' = Paused(autoTrade)
    /\ UNCHANGED << inflight, oppStream, approvedStream, ordersNew, ordersFills,
                    arbTrades, delivered, acks, loop, external >>
    /\ UNCHANGED << riskStream, riskCfg, scanVars, pending >>

\* a value of the JSON body of POST /toggles: a boolean, a string, a number,
\* null, or no field at all
JVal(t, b, str, n) == [t |-> t, b |-> b, str |-> str, n |-> n]
JBool(b) == JVal("bool", b, "", 0)
JStr(str) == JVal("string", FALSE, str, 0)
JNum(n) == JVal("number", FALSE, "", n)
JNull == JVal("null", FALSE, "", 0)
JAbsent == JVal("absent", FALSE, "", 0)

\* the autoTrade fields a client can submit
ToggleBodies ==
    {JBool(TRUE), JBool(FALSE), JNum(0), JNum(1), JNull, JAbsent}
        \cup {JStr(str) : str \in {"true", "1", "yes", "on", "TRUE", "false", "0",
                                   "no", "off", " Off ", "maybe", ""}}

\* the condition `v ? ... : ...` and !!v of JavaScript
Truthy(v) ==
    CASE v.t = "bool" -> v.b
      [] v.t = "string" -> v.str # ""
      [] v.t = "number" -> v.n # 0
      [] OTHER -> FALSE

\* toBool of the api-gateway (lines 126-134): "true", "false" or "null"
toBool(v) ==
    CASE v.t = "bool" -> IF v.b THEN "true" ELSE "false"
      [] v.t = "string" ->
            IF Norm(v.str) \in {"true", "1", "yes", "on"} THEN "true"
            ELSE IF Norm(v.str) \in {"false", "0", "no", "off"} THEN "false"
            ELSE "null"
      [] OTHER -> "null"

\* POST /toggles of the api-gateway with body { autoTrade: v }
gwPostToggles(v) ==
    /\ kvAuto' = IF toBool(v) # "null" THEN toBool(v) ELSE kvAuto
    /\ hist' = [hist EXCEPT !.lastPost = [by |-> "gateway", v |-> v]]
    /\ UNCHANGED << AUTO_TRADE, inflight, oppStream, approvedStream, ordersNew,
                    ordersFills, arbTrades, delivered, acks, loop, external >>
    /\ UNCHANGED << riskStream, riskCfg, scanVars, pending >>

\* POST /toggles of the executor with body { autoTrade: v }, v of any type
\* (lines 704-709): nothing is done for an absent field
execPostToggles(v) ==
    /\ kvAuto' = IF v.t = "absent" THEN kvAuto
                 ELSE IF Truthy(v) THEN "true" ELSE "false"
    /\ AUTO_TRADE' = IF v.t = "absent" THEN AUTO_TRADE ELSE Truthy(v)
    /\ hist' = [(IF v.t = "absent" THEN hist ELSE Paused(Truthy(v))) EXCEPT
                   !.lastPost = [by |-> "executor", v |-> v]]
    /\ UNCHANGED << inflight, oppStream, approvedStream, ordersNew, ordersFills,
                    arbTrades, delivered, acks, loop, external >>
    /\ UNCHANGED << riskStream, riskCfg, scanVars, pending >>

\* GET /toggles of the api-gateway (lines 116-120): the autoTrade it reports
gwGetToggles == kvAuto = "true"

\* GET /healthz of the api-gateway (lines 70-78): the autoTrade it reports
\* when the store answers
gwHealthz == kvAuto = "true"

\* the strings a writer can leave in toggles:autoTrade
RawStoreVals == {"true", "false", "1", "0", "TRUE", "maybe"}

\* any other writer of toggles:autoTrade (UI through the gateway, redis-cli)
StoreSet(v) ==
    /\ kvAuto # v
    /\ kvAuto' = v
    /\ UNCHANGED << AUTO_TRADE, inflight, oppStream, approvedStream, ordersNew,
                    ordersFills, arbTrades, delivered, acks, loop, external, hist >>
    /\ UNCHANGED << riskStream, riskCfg, scanVars, pending >>

\* ------------------------------------------------- executor: opportunities
\* consumeOpportunities (setInterval 200): the guard and the XREADGROUP
ExecOppPoll ==
    /\ loop["execOpp"].pc = "idle"
    /\ tradingEnabled
    /\ loop' = At("execOpp", "read")
    /\ UNCHANGED << kvAuto, AUTO_TRADE, inflight, oppStream, approvedStream,
                    ordersNew, ordersFills, arbTrades, delivered, acks,
                    external, hist >>
    /\ UNCHANGED << riskStream, riskCfg, scanVars, pending >>

\* the reply of the XREADGROUP on arb.opportunities
ExecOppDeliver ==
    /\ loop["execOpp"].pc = "read"
    /\ XReadGroup("execOpp", oppStream, OPP_COUNT)
    /\ UNCHANGED << kvAuto, AUTO_TRADE, inflight, oppStream, approvedStream,
                    ordersNew, ordersFills, arbTrades, acks, external, hist >>
    /\ UNCHANGED << riskStream, riskCfg, scanVars, pending >>

\* one entry of the batch: the try block and the XACK that ends it (line 606,
\* or line 609 after a throw)
ExecOppMsg ==
    /\ loop["execOpp"].pc = "msg"
    /\ LET opp == oppStream[loop["execOpp"].i]
       IN  IF opp = Poison
           THEN UNCHANGED << inflight, ordersNew, hist >>
           ELSE LET corrId == opp.id
                    legs   == protectiveFirst(Catalog[opp.tpl].legs)
                IN  /\ inflight' = [inflight EXCEPT ![corrId] =
                                       [tpl |-> opp.tpl, legs |-> legs,
                                        fills |-> [k \in 0..1 |-> NoFill]]]
                    /\ hist' = Registered(corrId)
                    /\ ordersNew' = IF Len(legs) >= 1
                                    THEN sendOrder(corrId, 0, legs[1])
                                    ELSE ordersNew
    /\ acks' = XAck(acks, "execOpp")
    /\ loop' = NextMsg("execOpp")
    /\ UNCHANGED << kvAuto, AUTO_TRADE, oppStream, approvedStream, ordersFills,
                    arbTrades, delivered, external >>
    /\ UNCHANGED << riskStream, riskCfg, scanVars, pending >>

\* one entry of the batch when the XADD of the leg 0 Order is refused:
\* inflight.set is done, sendOrder raises, the catch block acknowledges
ExecOppMsgFail ==
    /\ loop["execOpp"].pc = "msg"
    /\ oppStream[loop["execOpp"].i] # Poison
    /\ tradingEnabled
    /\ LET opp    == oppStream[loop["execOpp"].i]
           corrId == opp.id
           legs   == protectiveFirst(Catalog[opp.tpl].legs)
       IN  /\ Len(legs) >= 1
           /\ inflight' = [inflight EXCEPT ![corrId] =
                              [tpl |-> opp.tpl, legs |-> legs,
                               fills |-> [k \in 0..1 |-> NoFill]]]
           /\ hist' = [Registered(corrId) EXCEPT
                          !.refused = Append(@, << corrId, 0 >>)]
    /\ acks' = XAck(acks, "execOpp")
    /\ loop' = NextMsg("execOpp")
    /\ UNCHANGED << kvAuto, AUTO_TRADE, oppStream, approvedStream, ordersNew,
                    ordersFills, arbTrades, delivered, external >>
    /\ UNCHANGED << riskStream, riskCfg, scanVars, pending >>

\* --------------------------------------------------------- executor: fills
ExecFillPoll ==
    /\ loop["execFill"].pc = "idle"
    /\ tradingEnabled
    /\ loop' = At("execFill", "read")
    /\ UNCHANGED << kvAuto, AUTO_TRADE, inflight, oppStream, approvedStream,
                    ordersNew, ordersFills, arbTrades, delivered, acks,
                    external, hist >>
    /\ UNCHANGED << riskStream, riskCfg, scanVars, pending >>

ExecFillDeliver ==
    /\ loop["execFill"].pc = "read"
    /\ XReadGroup("execFill", ordersFills, FILL_COUNT)
    /\ UNCHANGED << kvAuto, AUTO_TRADE, inflight, oppStream, approvedStream,
                    ordersNew, ordersFills, arbTrades, acks, external, hist >>
    /\ UNCHANGED << riskStream, riskCfg, scanVars, pending >>

\* the state left by the terminal branch: emitTrade, then inflight.delete
\* unless emitTrade raised
Terminal(corrId, st, fills) ==
    IF emitTrade(st.tpl, fills) = "throw"
    THEN [inflight EXCEPT ![corrId].fills = fills]
    ELSE [inflight EXCEPT ![corrId] = NoEntry]

\* both recorded fills positive, PnL above the floor, trading on
TradeDue(st, fills) ==
    /\ tradingEnabled
    /\ fills[0] # NoFill /\ fills[0].filledSize > 0
    /\ fills[1] # NoFill /\ fills[1].filledSize > 0
    /\ computePnlFromFills(st.tpl, fills) > 20000 * MIN_REALIZED_PNL

\* variant: the leg 0 branch does not look at filledSize
FillBranch_anySize(st, fill) ==
    IF st = NoEntry THEN "drop"
    ELSE IF fill.legIndex = 0
         THEN IF Len(st.legs) >= 2 THEN "next" ELSE "terminal"
         ELSE "terminal"

\* variant: a Fill of leg 1 of an Opportunity with more legs sends on
FillBranch_chain(st, fill) ==
    IF st = NoEntry THEN "drop"
    ELSE IF fill.legIndex = 0
         THEN IF fill.filledSize > 0
              THEN IF Len(st.legs) >= 2 THEN "next" ELSE "terminal"
              ELSE "abort"
         ELSE IF Len(st.legs) >= 3 THEN "next" ELSE "terminal"

\* what consumeFills does with a parsed Fill (lines 632-646): "drop" (no
\* inflight entry), "next" (send leg 1), "terminal" (emitTrade, delete) or
\* "abort" (delete)
FillBranch(st, fill) ==
    IF st = NoEntry THEN "drop"
    ELSE IF fill.legIndex = 0
         THEN IF fill.filledSize > 0
              THEN IF Len(st.legs) >= 2 THEN "next" ELSE "terminal"
              ELSE "abort"
         ELSE "terminal"

\* variant: a Fill of an unknown corrId opens an entry
Dropped_recorded(corrId, fill) ==
    [inflight EXCEPT ![corrId] =
        [tpl |-> 1, legs |-> protectiveFirst(Catalog[1].legs),
         fills |-> [NoEntry.fills EXCEPT ![fill.legIndex] = fill]]]

\* the branch of an unknown corrId (line 633): XACK and continue, the table
\* is left as it is
Dropped(corrId, fill) == inflight

\* variant: the abort branch leaves the entry in the table
Abort_keep(corrId) == inflight

\* the abort branch (line 642): inflight.delete(corrId)
Abort(corrId) == [inflight EXCEPT ![corrId] = NoEntry]

\* history of the executor after it processed the Fill
FillHist(st, fill, fills) ==
    LET c == fill.corrId
        tracked == st # NoEntry
        h1 == IF fill.legIndex = 0
              THEN [hist EXCEPT !.leg0Seen = @ \cup {c}] ELSE hist
        h2 == IF tracked /\ fill.legIndex = 0 /\ fill.filledSize = 0
              THEN [h1 EXCEPT !.aborted = @ \cup {c}] ELSE h1
        h3 == IF tracked /\ fill.legIndex = 1 /\ TradeDue(st, fills)
              THEN [h2 EXCEPT !.due = @ \cup {c}] ELSE h2
    IN  IF tracked /\ fill.legIndex = 1 /\ tradingEnabled
              /\ computePnlFromFills(st.tpl, fills) = 20000 * MIN_REALIZED_PNL
        THEN [h3 EXCEPT !.atFloor = @ \cup {c}] ELSE h3

\* one entry of the batch: the try block and the XACK that ends it (line 633,
\* line 647, or line 650 after a throw)
ExecFillMsg ==
    /\ loop["execFill"].pc = "msg"
    /\ LET fill == ordersFills[loop["execFill"].i]
       IN  IF fill = PoisonFill
           THEN UNCHANGED << inflight, ordersNew, hist >>
           ELSE LET corrId == fill.corrId
                    st     == inflight[corrId]
                    fills  == [st.fills EXCEPT ![fill.legIndex] = fill]
                    branch == FillBranch(st, fill)
                IN  /\ hist' = FillHist(st, fill, fills)
                    /\ ordersNew' = IF branch = "next"
                                    THEN sendOrder(corrId, 1, st.legs[2])
                                    ELSE ordersNew
                    /\ inflight' =
                         CASE branch = "drop" -> Dropped(corrId, fill)
                           [] branch = "next" -> [inflight EXCEPT ![corrId].fills = fills]
                           [] branch = "terminal" -> Terminal(corrId, st, fills)
                           [] branch = "abort" -> Abort(corrId)
    /\ acks' = XAck(acks, "execFill")
    /\ loop' = NextMsg("execFill")
    /\ UNCHANGED << kvAuto, AUTO_TRADE, oppStream, approvedStream, ordersFills,
                    arbTrades, delivered, external >>
    /\ UNCHANGED << riskStream, riskCfg, scanVars, pending >>

\* one entry of the batch when the XADD of the leg 1 Order is refused: the
\* Fill is recorded in the entry, sendOrder raises, the catch block
\* acknowledges
ExecFillMsgFail ==
    /\ loop["execFill"].pc = "msg"
    /\ ordersFills[loop["execFill"].i] # PoisonFill
    /\ tradingEnabled
    /\ LET fill   == ordersFills[loop["execFill"].i]
           corrId == fill.corrId
           st     == inflight[corrId]
           fills  == [st.fills EXCEPT ![fill.legIndex] = fill]
       IN  /\ FillBranch(st, fill) = "next"
           /\ inflight' = [inflight EXCEPT ![corrId].fills = fills]
           /\ hist' = [FillHist(st, fill, fills) EXCEPT
                          !.refused = Append(@, << corrId, 1 >>)]
    /\ acks' = XAck(acks, "execFill")
    /\ loop' = NextMsg("execFill")
    /\ UNCHANGED << kvAuto, AUTO_TRADE, oppStream, approvedStream, ordersNew,
                    ordersFills, arbTrades, delivered, external >>
    /\ UNCHANGED << riskStream, riskCfg, scanVars, pending >>

\* ------------------------------------------- a second executor instance
\* The same program in another process: consumer `executor-<pid>` of the same
\* group 'executor' (lines 476-477), with a Map of its own (line 493).  The
\* group's cursor and acknowledgements are the bus's, shared by both.  Both
\* read the same toggles:autoTrade.
NoPeer == [inflight |-> [c \in CorrIds |-> NoEntry], opp |-> Idle, fill |-> Idle]

PeerRead(which, g, stream, count) ==
    IF Len(stream) > delivered[g]
    THEN LET hi == Min(Len(stream), delivered[g] + count)
         IN  /\ delivered' = [delivered EXCEPT ![g] = hi]
             /\ peer' = [peer EXCEPT ![which] =
                            [pc |-> "msg", i |-> delivered[g] + 1, hi |-> hi]]
    ELSE /\ delivered' = delivered
         /\ peer' = [peer EXCEPT ![which] = Idle]

PeerNext(l) ==
    IF l.i < l.hi THEN [pc |-> "msg", i |-> l.i + 1, hi |-> l.hi] ELSE Idle

PeerAck(g, n) == [acks EXCEPT ![g][n] = @ + 1]

PeerOppPoll ==
    /\ peer.opp.pc = "idle"
    /\ tradingEnabled
    /\ peer' = [peer EXCEPT !.opp.pc = "read"]
    /\ UNCHANGED << kvAuto, AUTO_TRADE, inflight, oppStream, approvedStream,
                    ordersNew, ordersFills, arbTrades, delivered, acks, loop,
                    external, hist, riskStream, riskCfg, pending, clock,
                    tokens, lastRefill, scan, scanCfg, meta, intersection,
                    lastDiscover, discVars >>

PeerOppDeliver ==
    /\ peer.opp.pc = "read"
    /\ PeerRead("opp", "execOpp", oppStream, OPP_COUNT)
    /\ UNCHANGED << kvAuto, AUTO_TRADE, inflight, oppStream, approvedStream,
                    ordersNew, ordersFills, arbTrades, acks, loop,
                    external, hist, riskStream, riskCfg, pending, clock,
                    tokens, lastRefill, scan, scanCfg, meta, intersection,
                    lastDiscover, discVars >>

\* one entry of the batch (lines 597-610), by the second instance
PeerOppMsg ==
    /\ peer.opp.pc = "msg"
    /\ LET opp == oppStream[peer.opp.i]
       IN  IF opp = Poison
           THEN /\ peer' = [peer EXCEPT !.opp = PeerNext(peer.opp)]
                /\ ordersNew' = ordersNew
           ELSE LET corrId == opp.id
                    legs   == protectiveFirst(Catalog[opp.tpl].legs)
                IN  /\ peer' = [peer EXCEPT
                                   !.inflight[corrId] =
                                       [tpl |-> opp.tpl, legs |-> legs,
                                        fills |-> [k \in 0..1 |-> NoFill]],
                                   !.opp = PeerNext(peer.opp)]
                    /\ ordersNew' = IF Len(legs) >= 1
                                    THEN sendOrder(corrId, 0, legs[1])
                                    ELSE ordersNew
    /\ acks' = PeerAck("execOpp", peer.opp.i)
    /\ UNCHANGED << kvAuto, AUTO_TRADE, inflight, oppStream, approvedStream,
                    ordersFills, arbTrades, delivered, loop,
                    external, hist, riskStream, riskCfg, pending, clock,
                    tokens, lastRefill, scan, scanCfg, meta, intersection,
                    lastDiscover, discVars >>

PeerFillPoll ==
    /\ peer.fill.pc = "idle"
    /\ tradingEnabled
    /\ peer' = [peer EXCEPT !.fill.pc = "read"]
    /\ UNCHANGED << kvAuto, AUTO_TRADE, inflight, oppStream, approvedStream,
                    ordersNew, ordersFills, arbTrades, delivered, acks, loop,
                    external, hist, riskStream, riskCfg, pending, clock,
                    tokens, lastRefill, scan, scanCfg, meta, intersection,
                    lastDiscover, discVars >>

PeerFillDeliver ==
    /\ peer.fill.pc = "read"
    /\ PeerRead("fill", "execFill", ordersFills, FILL_COUNT)
    /\ UNCHANGED << kvAuto, AUTO_TRADE, inflight, oppStream, approvedStream,
                    ordersNew, ordersFills, arbTrades, acks, loop,
                    external, hist, riskStream, riskCfg, pending, clock,
                    tokens, lastRefill, scan, scanCfg, meta, intersection,
                    lastDiscover, discVars >>

\* one entry of the batch (lines 628-652), by the second instance
PeerFillMsg ==
    /\ peer.fill.pc = "msg"
    /\ LET fill == ordersFills[peer.fill.i]
       IN  IF fill = PoisonFill
           THEN /\ peer' = [peer EXCEPT !.fill = PeerNext(peer.fill)]
                /\ ordersNew' = ordersNew
           ELSE LET corrId == fill.corrId
                    st     == peer.inflight[corrId]
                    fills  == [st.fills EXCEPT ![fill.legIndex] = fill]
                    branch == FillBranch(st, fill)
                    kept   == [st EXCEPT !.fills = fills]
                IN  /\ ordersNew' = IF branch = "next"
                                    THEN sendOrder(corrId, 1, st.legs[2])
                                    ELSE ordersNew
                    /\ peer' = [peer EXCEPT
                          !.inflight[corrId] =
                             CASE branch = "drop" -> NoEntry
                               [] branch = "next" -> kept
                               [] branch = "terminal" ->
                                    IF emitTrade(st.tpl, fills) = "throw"
                                    THEN kept ELSE NoEntry
                               [] branch = "abort" -> NoEntry,
                          !.fill = PeerNext(peer.fill)]
    /\ acks' = PeerAck("execFill", peer.fill.i)
    /\ UNCHANGED << kvAuto, AUTO_TRADE, inflight, oppStream, approvedStream,
                    ordersFills, arbTrades, delivered, loop,
                    external, hist, riskStream, riskCfg, pending, clock,
                    tokens, lastRefill, scan, scanCfg, meta, intersection,
                    lastDiscover, discVars >>

\* -------------------------------------------------------- order simulator
\* variant: every Fill is reported for leg 0
emitFillFromOrder_legZero(ord) ==
    LET size == IF ord.leg.size = 0 THEN 1 ELSE ord.leg.size
    IN  [Fill(ord.corrId, 0, ord.leg.venue, ord.leg.side,
              ord.leg.estPx, size, size) EXCEPT !.mode = ord.mode]

\* emitFillFromOrder: the Fill of an Order.  A size that is missing, zero or
\* not a number (0 here) is replaced by 1.
emitFillFromOrder(ord) ==
    LET size == IF ord.leg.size = 0 THEN 1 ELSE ord.leg.size
    IN  [Fill(ord.corrId, ord.legIndex, ord.leg.venue, ord.leg.side,
              ord.leg.estPx, size, size) EXCEPT !.mode = ord.mode]

\* run: the XREADGROUP on orders.new answered with entries
SimDeliver ==
    /\ loop["sim"].pc = "idle"
    /\ Len(ordersNew) > delivered["sim"]
    /\ XReadGroup("sim", ordersNew, SIM_COUNT)
    /\ UNCHANGED << kvAuto, AUTO_TRADE, inflight, oppStream, approvedStream,
                    ordersNew, ordersFills, arbTrades, acks, external, hist >>
    /\ UNCHANGED << riskStream, riskCfg, scanVars, pending >>

\* one entry of the batch.  try: an unparsable entry is acknowledged at line
\* 115 and left with `continue`, any other one is answered with its Fill;
\* finally (line 125): XACK, on every way out of the try block.
SimMsg ==
    /\ loop["sim"].pc = "msg"
    /\ LET ord == ordersNew[loop["sim"].i]
       IN  IF ord = PoisonOrder
           THEN /\ acks' = XAck(XAck(acks, "sim"), "sim")
                /\ ordersFills' = ordersFills
           ELSE /\ ordersFills' = Append(ordersFills, emitFillFromOrder(ord))
                /\ acks' = XAck(acks, "sim")
    /\ loop' = NextMsg("sim")
    /\ UNCHANGED << kvAuto, AUTO_TRADE, inflight, oppStream, approvedStream,
                    ordersNew, arbTrades, delivered, external, hist >>
    /\ UNCHANGED << riskStream, riskCfg, scanVars, pending >>

\* one entry of the batch when the XADD of the Fill is refused: the catch block
\* logs, the finally block acknowledges, the loop goes on
SimMsgFail ==
    /\ loop["sim"].pc = "msg"
    /\ ordersNew[loop["sim"].i] # PoisonOrder
    /\ acks' = XAck(acks, "sim")
    /\ loop' = NextMsg("sim")
    /\ UNCHANGED << kvAuto, AUTO_TRADE, inflight, oppStream, approvedStream,
                    ordersNew, ordersFills, arbTrades, delivered, external, hist >>
    /\ UNCHANGED << riskStream, riskCfg, scanVars, pending >>

\* the Orders the simulator can be handed: any leg of any corrId, with a size
\* of 1 or 2, a negative one, or without one (0), and an entry that is not
\* JSON
SimOrders ==
    { Order(c, k, Leg("v1", side, 100, sz)) :
          c \in CorrIds, k \in 0..1, side \in {"BUY", "SELL"}, sz \in -1..2 }
        \cup {PoisonOrder}

\* an Order is appended to orders.new
EmitOrder(ord) ==
    /\ external < MaxExternal
    /\ external' = external + 1
    /\ ordersNew' = Append(ordersNew, ord)
    /\ UNCHANGED << kvAuto, AUTO_TRADE, inflight, oppStream, approvedStream,
                    ordersFills, arbTrades, delivered, acks, loop, hist >>
    /\ UNCHANGED << riskStream, riskCfg, scanVars, pending >>

\* -------------------------------------------------------------- accounting
\* consumeTrades (setInterval 200): the XREADGROUP on arb.trades answered
\* with entries
AcctDeliver ==
    /\ loop["acct"].pc = "idle"
    /\ Len(arbTrades) > delivered["acct"]
    /\ XReadGroup("acct", arbTrades, ACCT_COUNT)
    /\ UNCHANGED << kvAuto, AUTO_TRADE, inflight, oppStream, approvedStream,
                    ordersNew, ordersFills, arbTrades, acks, external, hist >>
    /\ UNCHANGED << riskStream, riskCfg, scanVars, pending >>

\* one entry of the batch.  Nothing catches what JSON.parse raises at line
\* 45: the call of consumeTrades ends there, with the entry and the rest of
\* its batch neither processed nor acknowledged.
AcctMsg ==
    /\ loop["acct"].pc = "msg"
    /\ IF arbTrades[loop["acct"].i] = PoisonTrade
       THEN /\ loop' = [loop EXCEPT !["acct"] = Idle]
            /\ acks' = acks
       ELSE /\ acks' = XAck(acks, "acct")
            /\ loop' = NextMsg("acct")
    /\ UNCHANGED << kvAuto, AUTO_TRADE, inflight, oppStream, approvedStream,
                    ordersNew, ordersFills, arbTrades, delivered, external, hist >>
    /\ UNCHANGED << riskStream, riskCfg, scanVars, pending >>

\* -------------------------------------------------------------- producers
\* a scanner appends an Opportunity to arb.opportunities
EmitOpp(tpl) ==
    /\ external < MaxExternal
    /\ external' = external + 1
    /\ oppStream' = Append(oppStream, [id |-> external + 1, tpl |-> tpl])
    /\ UNCHANGED << kvAuto, AUTO_TRADE, inflight, approvedStream, ordersNew,
                    ordersFills, arbTrades, delivered, acks, loop, hist >>
    /\ UNCHANGED << riskStream, riskCfg, scanVars, pending >>

\* an Opportunity is written to arb.approved (e2e-approved.sh, risk engine)
EmitApproved(tpl) ==
    /\ external < MaxExternal
    /\ external' = external + 1
    /\ approvedStream' = Append(approvedStream, [id |-> external + 1, tpl |-> tpl])
    /\ UNCHANGED << kvAuto, AUTO_TRADE, inflight, oppStream, ordersNew,
                    ordersFills, arbTrades, delivered, acks, loop, hist >>
    /\ UNCHANGED << riskStream, riskCfg, scanVars, pending >>

\* Fills written to orders.fills from outside (force-trade-via-fills.sh, a
\* venue adapter): unparsable, or of leg 0 or 1 with filledSize 0 or 1
InjectedFills ==
    {PoisonFill}
        \cup { Fill(c, 0, "ext", "SELL", 100, 1, sz) : c \in CorrIds, sz \in 0..1 }
        \cup { Fill(c, 1, "ext", "SELL", 100, 1, 1) : c \in CorrIds }

InjectFill(f) ==
    /\ external < MaxExternal
    /\ external' = external + 1
    /\ ordersFills' = Append(ordersFills, f)
    /\ UNCHANGED << kvAuto, AUTO_TRADE, inflight, oppStream, approvedStream,
                    ordersNew, arbTrades, delivered, acks, loop, hist >>
    /\ UNCHANGED << riskStream, riskCfg, scanVars, pending >>

InjectOrder ==
    /\ external < MaxExternal
    /\ external' = external + 1
    /\ ordersNew' = Append(ordersNew, PoisonOrder)
    /\ UNCHANGED << kvAuto, AUTO_TRADE, inflight, oppStream, approvedStream,
                    ordersFills, arbTrades, delivered, acks, loop, hist >>
    /\ UNCHANGED << riskStream, riskCfg, scanVars, pending >>

\* entries other writers put on arb.trades (an operator's XADD of a Trade
\* { ts, mode, legs, realizedPnl }, which names no source)
InjectedTrades == {PoisonTrade, Trade(0, "paper", 1, FALSE, FALSE, "")}

InjectTrade(t) ==
    /\ external < MaxExternal
    /\ external' = external + 1
    /\ arbTrades' = Append(arbTrades, t)
    /\ UNCHANGED << kvAuto, AUTO_TRADE, inflight, oppStream, approvedStream,
                    ordersNew, ordersFills, delivered, acks, loop, hist >>
    /\ UNCHANGED << riskStream, riskCfg, scanVars, pending >>

InjectOpp ==
    /\ external < MaxExternal
    /\ external' = external + 1
    /\ oppStream' = Append(oppStream, Poison)
    /\ UNCHANGED << kvAuto, AUTO_TRADE, inflight, approvedStream, ordersNew,
                    ordersFills, arbTrades, delivered, acks, loop, hist >>
    /\ UNCHANGED << riskStream, riskCfg, scanVars, pending >>

\* an operator publishes a test Opportunity whose id is "force-$RANDOM": the id
\* can be one an earlier Opportunity carried
EmitOppId(c, tpl) ==
    /\ external < MaxExternal
    /\ external' = external + 1
    /\ oppStream' = Append(oppStream, [id |-> c, tpl |-> tpl])
    /\ UNCHANGED << kvAuto, AUTO_TRADE, inflight, approvedStream, ordersNew,
                    ordersFills, arbTrades, delivered, acks, loop, hist >>
    /\ UNCHANGED << riskStream, riskCfg, scanVars, pending >>

\* ------------------------------------------------------------ risk engine
\* Basis-point amounts are integers in units of 1/BpsScale bps, finer than the
\* two decimals netBps is rounded to.
BpsScale == 1000
EDGE_MIN_BPS == 20
MAX_TOTAL_SIZE == 10
RISK_COUNT == 50

\* a leg of a candidate Opportunity; size 0 and feeBps 0: not supplied
RiskLeg(side, estPx, size, feeBps) ==
    [side |-> side, estPx |-> estPx, size |-> size, feeBps |-> feeBps]

\* a candidate Opportunity: payload.paper, payload.legs, payload.edgeBps
\* (hasEdge FALSE: absent or not a finite number), payload.costs.fees x 10000
\* and (payload.costs.slippage + payload.costs.borrow) x 10000
RiskOpp(paper, legs, hasEdge, edgeBps, feesAbsBps, otherBps) ==
    [paper |-> paper, legs |-> legs, hasEdge |-> hasEdge, edgeBps |-> edgeBps,
     feesAbsBps |-> feesAbsBps, otherBps |-> otherBps]

\* the candidate Opportunities the scanners can publish on scanner.to.risk
RiskCatalog ==
    << RiskOpp(TRUE,  << RiskLeg("BUY", 100, 1, 0), RiskLeg("SELL", 101, 1, 0) >>,
               TRUE, 250 * BpsScale, 0, 0),
       RiskOpp(FALSE, << RiskLeg("BUY", 100, 1, 0), RiskLeg("SELL", 101, 1, 0) >>,
               TRUE, 5 * BpsScale, 0, 0),
       RiskOpp(FALSE, << RiskLeg("BUY", 100, 1, 0), RiskLeg("SELL", 101, 1, 0) >>,
               TRUE, 20 * BpsScale, 0, 0),
       RiskOpp(FALSE, << RiskLeg("BUY", 100, 1, 0) >>,
               TRUE, 250 * BpsScale, 0, 0),
       RiskOpp(FALSE, << RiskLeg("BUY", 100, 6, 0), RiskLeg("SELL", 101, 6, 0) >>,
               TRUE, 250 * BpsScale, 0, 0),
       RiskOpp(FALSE, << RiskLeg("BUY", 99, 0, 0), RiskLeg("SELL", 101, 0, 0) >>,
               FALSE, 0, 0, 0),
       RiskOpp(FALSE, << RiskLeg("SELL", 101, 1, 0) >>,
               FALSE, 0, 0, 0),
       RiskOpp(FALSE, << RiskLeg("BUY", 100, 1, 15 * BpsScale),
                         RiskLeg("SELL", 101, 1, 15 * BpsScale) >>,
               TRUE, 25 * BpsScale, 40 * BpsScale, 0),
       RiskOpp(FALSE, << RiskLeg("BUY", 100, 1, 0), RiskLeg("SELL", 101, 1, 0) >>,
               TRUE, 25004, 5000, 8) >>

RiskTemplates == 1..Len(RiskCatalog)

\* the policy thresholds a deployment can set (lines 49-53)
RiskConfigs ==
    [EDGE_MIN_BPS : {EDGE_MIN_BPS * BpsScale},
     NET_MIN_BPS : {0, 20 * BpsScale},
     MAX_TOTAL_SIZE : {MAX_TOTAL_SIZE},
     REQUIRE_BOTH_SIDES : BOOLEAN,
     ALLOW_PAPER_ONLY : BOOLEAN]

DefaultRiskConfig ==
    [EDGE_MIN_BPS |-> EDGE_MIN_BPS * BpsScale, NET_MIN_BPS |-> 0,
     MAX_TOTAL_SIZE |-> MAX_TOTAL_SIZE, REQUIRE_BOTH_SIDES |-> TRUE,
     ALLOW_PAPER_ONLY |-> FALSE]

RECURSIVE SumLegs(_, _, _)
\* legs.reduce / legs.map(...).reduce over the field f, from leg k on
SumLegs(legs, f, k) ==
    IF k > Len(legs) THEN 0 ELSE legs[k][f] + SumLegs(legs, f, k + 1)

HasSide(legs, side) == \E i \in 1..Len(legs) : legs[i].side = side

\* Number(x.toFixed(2)): the nearest multiple of 1/100, a tie away from zero
ToFixed2(x) ==
    LET step == BpsScale \div 100
        a    == IF x < 0 THEN -x ELSE x
        r    == ((2 * a + step) \div (2 * step)) * step
    IN  IF x < 0 THEN -r ELSE r

Verdict(ok, reason, netBps) == [ok |-> ok, reason |-> reason, netBps |-> netBps]

\* variant: an edge equal to the threshold is rejected
evaluateRisk_strictEdge(opp, cfg) ==
    LET legs      == opp.legs
        totalSize == SumLegs(legs, "size", 1)
        buyPx     == FirstOfSide(legs, "BUY")
        sellPx    == FirstOfSide(legs, "SELL")
        fromPx    == ~opp.hasEdge /\ HasSide(legs, "BUY") /\ HasSide(legs, "SELL")
                         /\ buyPx + sellPx > 0
        finite    == opp.hasEdge \/ fromPx
        grossBps  == IF opp.hasEdge THEN opp.edgeBps
                     ELSE IF fromPx
                          THEN ((sellPx - buyPx) * 2 * 10000 * BpsScale)
                                   \div (buyPx + sellPx)
                          ELSE 0
        legsFeeBps == SumLegs(legs, "feeBps", 1)
        feesBps   == IF legsFeeBps > 0 THEN legsFeeBps ELSE opp.feesAbsBps
        netBps    == ToFixed2(grossBps - (feesBps + opp.otherBps))
    IN  IF ~cfg.ALLOW_PAPER_ONLY /\ opp.paper
        THEN Verdict(FALSE, "paper_mode_not_allowed", 0)
        ELSE IF cfg.REQUIRE_BOTH_SIDES
                  /\ ~(HasSide(legs, "BUY") /\ HasSide(legs, "SELL"))
        THEN Verdict(FALSE, "missing_side", 0)
        ELSE IF totalSize > 0 /\ totalSize > cfg.MAX_TOTAL_SIZE
        THEN Verdict(FALSE, "size_exceeds_cap", 0)
        ELSE IF ~finite \/ grossBps <= cfg.EDGE_MIN_BPS
        THEN Verdict(FALSE, "edge_below_threshold", 0)
        ELSE IF netBps < cfg.NET_MIN_BPS
        THEN Verdict(FALSE, "net_below_threshold", netBps)
        ELSE Verdict(TRUE, "approved", netBps)

\* evaluateRisk under the thresholds cfg
evaluateRisk(opp, cfg) ==
    LET legs      == opp.legs
        totalSize == SumLegs(legs, "size", 1)
        buyPx     == FirstOfSide(legs, "BUY")
        sellPx    == FirstOfSide(legs, "SELL")
        fromPx    == ~opp.hasEdge /\ HasSide(legs, "BUY") /\ HasSide(legs, "SELL")
                         /\ buyPx + sellPx > 0
        finite    == opp.hasEdge \/ fromPx
        grossBps  == IF opp.hasEdge THEN opp.edgeBps
                     ELSE IF fromPx
                          THEN ((sellPx - buyPx) * 2 * 10000 * BpsScale)
                                   \div (buyPx + sellPx)
                          ELSE 0
        legsFeeBps == SumLegs(legs, "feeBps", 1)
        feesBps   == IF legsFeeBps > 0 THEN legsFeeBps ELSE opp.feesAbsBps
        netBps    == ToFixed2(grossBps - (feesBps + opp.otherBps))
    IN  IF ~cfg.ALLOW_PAPER_ONLY /\ opp.paper
        THEN Verdict(FALSE, "paper_mode_not_allowed", 0)
        ELSE IF cfg.REQUIRE_BOTH_SIDES
                  /\ ~(HasSide(legs, "BUY") /\ HasSide(legs, "SELL"))
        THEN Verdict(FALSE, "missing_side", 0)
        ELSE IF totalSize > 0 /\ totalSize > cfg.MAX_TOTAL_SIZE
        THEN Verdict(FALSE, "size_exceeds_cap", 0)
        ELSE IF ~finite \/ grossBps < cfg.EDGE_MIN_BPS
        THEN Verdict(FALSE, "edge_below_threshold", 0)
        ELSE IF netBps < cfg.NET_MIN_BPS
        THEN Verdict(FALSE, "net_below_threshold", netBps)
        ELSE Verdict(TRUE, "approved", netBps)

\* buildApproved: the entry appended to arb.approved for the entry at
\* position src (history field) of scanner.to.risk
buildApproved(src, tpl, ev) ==
    [id |-> src, tpl |-> tpl, approved |-> TRUE,
     risk |-> [reason |-> ev.reason, netBps |-> ev.netBps, policy |-> riskCfg]]

\* variant: the entry is re-published whatever the verdict
RiskPublish_always(src, tpl, ev) ==
    Append(approvedStream, buildApproved(src, tpl, ev))

\* lines 145-151: arb.approved after the verdict ev on the entry at src
RiskPublish(src, tpl, ev) ==
    IF ev.ok THEN Append(approvedStream, buildApproved(src, tpl, ev))
    ELSE approvedStream

\* a scanner appends a candidate Opportunity, or some writer an entry that is
\* not JSON (tpl 0), to scanner.to.risk
EmitToRisk(tpl) ==
    /\ external < MaxExternal
    /\ external' = external + 1
    /\ riskStream' = Append(riskStream, [id |-> external + 1, tpl |-> tpl])
    /\ UNCHANGED << kvAuto, AUTO_TRADE, inflight, oppStream, approvedStream,
                    ordersNew, ordersFills, arbTrades, delivered, acks, loop,
                    hist, riskCfg, scanVars, pending >>

\* consume (setInterval 250): the XREADGROUP on scanner.to.risk answered with
\* entries
RiskDeliver ==
    /\ loop["risk"].pc = "idle"
    /\ Len(riskStream) > delivered["risk"]
    /\ XReadGroup("risk", riskStream, RISK_COUNT)
    /\ UNCHANGED << kvAuto, AUTO_TRADE, inflight, oppStream, approvedStream,
                    ordersNew, ordersFills, arbTrades, acks, external, hist,
                    riskStream, riskCfg, scanVars, pending >>

\* one entry of the batch: try (parse, evaluate, publish), catch, and the
\* XACK of the finally block
RiskMsg ==
    /\ loop["risk"].pc = "msg"
    /\ LET n   == loop["risk"].i
           tpl == riskStream[n].tpl
       IN  IF tpl = 0
           THEN /\ approvedStream' = approvedStream
                /\ hist' = [hist EXCEPT !.decisions = Append(@, Verdict(FALSE, "poison", 0))]
           ELSE LET ev == evaluateRisk(RiskCatalog[tpl], riskCfg)
                IN  /\ approvedStream' = RiskPublish(n, tpl, ev)
                    /\ hist' = [hist EXCEPT !.decisions = Append(@, ev)]
    /\ acks' = XAck(acks, "risk")
    /\ loop' = NextMsg("risk")
    /\ UNCHANGED << kvAuto, AUTO_TRADE, inflight, oppStream, ordersNew,
                    ordersFills, arbTrades, delivered, external, riskStream,
                    riskCfg, scanVars, pending >>

\* ---------------------------------------------------------- trade assembler
ASM_COUNT == 50

\* no record: pending.get(corr) undefined, upsertFill returning null
NoRec == [legs |-> << >>, mode |-> ""]

\* upsertFill: the pending table after the call and the record returned
\* (joined; NoRec for null).  corrId 0: the Fill names no corrId.
upsertFill(fill) ==
    LET corr == fill.corrId
        old  == IF pending[corr] = NoRec
                THEN [legs |-> << >>, mode |-> "paper"]
                ELSE pending[corr]
        rec  == [legs |-> Append(old.legs, fill),
                 mode |-> IF fill.mode # "" THEN fill.mode ELSE old.mode]
    IN  IF corr = 0 THEN [pending |-> pending, joined |-> NoRec]
        ELSE IF Len(rec.legs) >= 2
             THEN [pending |-> [pending EXCEPT ![corr] = NoRec], joined |-> rec]
             ELSE [pending |-> [pending EXCEPT ![corr] = rec], joined |-> NoRec]

\* a leg of an assembled Trade
AsmLeg(f) == [venue |-> f.venue, side |-> f.side, px |-> f.px, size |-> f.filledSize]

\* the Trade the assembler publishes: { ts, mode, legs, realizedPnl }.  It
\* has no field source (""), taken or approved.  corr: ghost field.
AsmTrade(corr, mode, legs, realizedPnl) ==
    [corr |-> corr, mode |-> mode, legs |-> legs, realizedPnl |-> realizedPnl,
     source |-> ""]
NoTrade == AsmTrade(0, "", << >>, 0)

\* legs.find(l => l.side === side): its index, 0 when there is none
FindSide(legs, side) ==
    IF \E i \in 1..Len(legs) : legs[i].side = side
    THEN CHOOSE i \in 1..Len(legs) :
            /\ legs[i].side = side
            /\ \A j \in 1..(i - 1) : legs[j].side # side
    ELSE 0

\* variant: the first Fill collected is taken for the BUY, the second for the
\* SELL
computeTradeFromFills_byArrival(corr, rec) ==
    LET legs == [k \in 1..Len(rec.legs) |-> AsmLeg(rec.legs[k])]
    IN  IF Len(legs) < 2 THEN NoTrade
        ELSE IF FindSide(legs, "BUY") = 0 \/ FindSide(legs, "SELL") = 0 THEN NoTrade
        ELSE AsmTrade(corr, rec.mode, legs,
                      (legs[2].px - legs[1].px) * Min(legs[1].size, legs[2].size))

\* computeTradeFromFills: the Trade of a joined record, NoTrade for null
computeTradeFromFills(corr, rec) ==
    LET legs == [k \in 1..Len(rec.legs) |-> AsmLeg(rec.legs[k])]
        buy  == FindSide(legs, "BUY")
        sell == FindSide(legs, "SELL")
    IN  IF Len(legs) < 2 THEN NoTrade
        ELSE IF buy = 0 \/ sell = 0 THEN NoTrade
        ELSE AsmTrade(corr, rec.mode, legs,
                      (legs[sell].px - legs[buy].px)
                          * Min(legs[buy].size, legs[sell].size))

\* run: the XREADGROUP on orders.fills answered with entries
AsmDeliver ==
    /\ loop["asm"].pc = "idle"
    /\ Len(ordersFills) > delivered["asm"]
    /\ XReadGroup("asm", ordersFills, ASM_COUNT)
    /\ UNCHANGED << kvAuto, AUTO_TRADE, inflight, oppStream, approvedStream,
                    ordersNew, ordersFills, arbTrades, acks, external, hist,
                    riskStream, riskCfg, scanVars, pending >>

\* one entry of the batch: try (parse, upsertFill, computeTradeFromFills,
\* publish), an empty catch, and the XACK of line 465
AsmMsg ==
    /\ loop["asm"].pc = "msg"
    /\ LET fill == ordersFills[loop["asm"].i]
       IN  IF fill = PoisonFill
           THEN UNCHANGED << pending, arbTrades >>
           ELSE LET up    == upsertFill(fill)
                    trade == computeTradeFromFills(fill.corrId, up.joined)
                IN  /\ pending' = up.pending
                    /\ arbTrades' = IF up.joined # NoRec /\ trade # NoTrade
                                    THEN Append(arbTrades, trade)
                                    ELSE arbTrades
    /\ acks' = XAck(acks, "asm")
    /\ loop' = NextMsg("asm")
    /\ UNCHANGED << kvAuto, AUTO_TRADE, inflight, oppStream, approvedStream,
                    ordersNew, ordersFills, delivered, external, hist,
                    riskStream, riskCfg, scanVars >>

\* the Fills written to orders.fills: of either leg index and side, at 100
\* with size 1 or at 101 with size 2, or not JSON
AsmFills ==
    { [Fill(c, k, "ext", side, 100 + d, 1 + d, 1 + d) EXCEPT !.mode = "paper"] :
          c \in CorrIds, k \in 0..1, side \in {"BUY", "SELL"}, d \in 0..1 }
        \cup {PoisonFill}

\* a Fill is appended to orders.fills (force-trade-via-fills.sh, the
\* simulator)
EmitFill(f) ==
    /\ Len(ordersFills) < MaxFills
    /\ ordersFills' = Append(ordersFills, f)
    /\ UNCHANGED << kvAuto, AUTO_TRADE, inflight, oppStream, approvedStream,
                    ordersNew, arbTrades, delivered, acks, loop, external, hist,
                    riskStream, riskCfg, scanVars, pending >>

\* ----------------------------------------------------------------- scanner
\* scanner-spot-arb (exchange-adapter-deribit/src/index.js 270-565).  The scan
\* tick of scanner-options (scanner-options-arb/src/index.js 269-332) is the
\* same text over its two option venues.  Every quote modelled carries a
\* numeric ts.  The clock does not run backwards.
MAX_BOOK_AGE_MS == 6000
EMIT_RATE_PER_SEC == 500
EMIT_BURST == 2
BINANCE_TAKER_BPS == 10
BYBIT_TAKER_BPS == 10

\* tokens are counted in 1/TokenScale: (t - lastRefill) / 1000 seconds
TokenScale == 1000

MaxClock == 3       \* the clock runs from 0 to MaxClock ms
MaxTicks == 2       \* scan ticks started
NumSymbols == 2     \* size of the discovered universe

Symbols == 1..NumSymbols

\* the value of orderbook:<venue>:<symbol>: absent, not a JSON book, or a book
NoQuote == [kind |-> "none", bid |-> 0, ask |-> 0, ts |-> 0]
BadQuote == [kind |-> "bad", bid |-> 0, ask |-> 0, ts |-> 0]
Book(bid, ask, ts) == [kind |-> "book", bid |-> bid, ask |-> ask, ts |-> ts]

\* quotes written by the adapters by the time t: a crossed book at the age
\* limit, the same book one ms older, a book without an ask, a plain book
Quotes(t) ==
    {NoQuote, BadQuote,
     Book(101, 99, t - MAX_BOOK_AGE_MS),
     Book(101, 99, t - MAX_BOOK_AGE_MS - 1),
     Book(101, 0, t),
     Book(98, 99, t + 1)}

\* the books of the other symbols: venue 1 absent or fresh, venue 2 fresh
PlainQuotes(t) == {NoQuote, Book(101, 99, t)} \X {Book(101, 99, t)}

\* the reply of the MGET: symbol -> << venue 1 quote, venue 2 quote >>
Snapshots(t) ==
    {[s \in Symbols |-> IF s = 1 THEN q ELSE pl[s]] :
        q \in Quotes(t) \X Quotes(t),
        pl \in [Symbols \ {1} -> PlainQuotes(t)]}

\* the replies at any time of the clock
AllSnapshots == UNION {Snapshots(t) : t \in 0..MaxClock}

NoRaws == [s \in Symbols |-> << NoQuote, NoQuote >>]

ScanConfig(g, n, a, m) ==
    [MIN_GROSS_BPS |-> g, MIN_NET_BPS |-> n, MIN_ABS_SPREAD |-> a, MIN_NOTIONAL |-> m]
DefaultScanConfig == ScanConfig(0, 0, 0, 0)
ScanConfigs ==
    {DefaultScanConfig, ScanConfig(200, 180, 2, 100), ScanConfig(201, 0, 0, 0),
     ScanConfig(0, 181, 0, 0), ScanConfig(0, 0, 3, 0), ScanConfig(0, 0, 0, 101)}

\* parseBook: null unless the value is a JSON object with numeric bid, ask, ts
NoBook == [bid |-> -1, ask |-> -1, ts |-> 0]
parseBook(raw) ==
    IF raw.kind = "book" THEN [bid |-> raw.bid, ask |-> raw.ask, ts |-> raw.ts]
    ELSE NoBook

\* calcEdge.  mid is kept doubled (mid2 = pxBuy + pxSell) and grossBps as the
\* fraction grossNum / mid2.
calcEdge(pxBuy, feeBuyBps, pxSell, feeSellBps) ==
    LET mid2 == pxBuy + pxSell
    IN  IF ~(mid2 > 0)
        THEN [mid2 |-> 0, grossNum |-> 0, feesBps |-> 0, abs |-> 0]
        ELSE [mid2 |-> mid2, grossNum |-> 20000 * (pxSell - pxBuy),
              feesBps |-> feeBuyBps + feeSellBps, abs |-> pxSell - pxBuy]

\* variant: the age limit itself counts as stale
stale_atLimit(tNow, b1, b2) ==
    LET age1 == IF tNow - b1.ts > 0 THEN tNow - b1.ts ELSE 0
        age2 == IF tNow - b2.ts > 0 THEN tNow - b2.ts ELSE 0
    IN  age1 >= MAX_BOOK_AGE_MS \/ age2 >= MAX_BOOK_AGE_MS

\* the stale_book test (lines 495-499): ages clamped at 0
stale(tNow, b1, b2) ==
    LET age1 == IF tNow - b1.ts > 0 THEN tNow - b1.ts ELSE 0
        age2 == IF tNow - b2.ts > 0 THEN tNow - b2.ts ELSE 0
    IN  age1 > MAX_BOOK_AGE_MS \/ age2 > MAX_BOOK_AGE_MS

\* the admission test of a path (lines 507-513)
admit(e, cfg) ==
    IF e.mid2 = 0
    THEN /\ 0 >= cfg.MIN_GROSS_BPS
         /\ 0 >= cfg.MIN_NET_BPS
         /\ 0 >= cfg.MIN_ABS_SPREAD
         /\ 0 >= cfg.MIN_NOTIONAL
    ELSE /\ e.grossNum >= cfg.MIN_GROSS_BPS * e.mid2
         /\ e.grossNum - e.feesBps * e.mid2 >= cfg.MIN_NET_BPS * e.mid2
         /\ e.abs >= cfg.MIN_ABS_SPREAD
         /\ e.mid2 >= 2 * cfg.MIN_NOTIONAL

ScanLeg(exchange, sym, side, estPx, feeBps) ==
    [exchange |-> exchange, instrumentId |-> sym, side |-> side,
     estPx |-> estPx, feeBps |-> feeBps]

\* the Opportunity emitOpp appends: { ts, payload: { edgeBps, legs, paper } }
ScanOpp(ts, e, legs) ==
    [ts |-> ts, edgeBps |-> << e.grossNum, e.mid2 >>, legs |-> legs, paper |-> TRUE]

NoCand == [ok |-> FALSE, e |-> calcEdge(0, 0, 0, 0), legs |-> << >>]

\* the candidate of path p for symbol sym, if the path admits one
candidate(p, sym, b1, b2, cfg) ==
    LET buy   == IF p = "A" THEN b1.ask ELSE b2.ask
        sell  == IF p = "A" THEN b2.bid ELSE b1.bid
        exBuy == IF p = "A" THEN "binance" ELSE "bybit"
        exSel == IF p = "A" THEN "bybit" ELSE "binance"
        fBuy  == IF p = "A" THEN BINANCE_TAKER_BPS ELSE BYBIT_TAKER_BPS
        fSel  == IF p = "A" THEN BYBIT_TAKER_BPS ELSE BINANCE_TAKER_BPS
        e     == calcEdge(buy, fBuy, sell, fSel)
    IN  IF buy # 0 /\ sell # 0 /\ admit(e, cfg)
        THEN [ok |-> TRUE, e |-> e,
              legs |-> << ScanLeg(exBuy, sym, "BUY", buy, fBuy),
                          ScanLeg(exSel, sym, "SELL", sell, fSel) >>]
        ELSE NoCand

\* variant: the bucket is not capped at EMIT_BURST
takeToken_uncapped ==
    LET t1 == tokens + (clock - lastRefill) * EMIT_RATE_PER_SEC
    IN  IF t1 >= TokenScale THEN [ok |-> TRUE, tokens |-> t1 - TokenScale]
        ELSE [ok |-> FALSE, tokens |-> t1]

\* takeToken (lines 387-394): refill for the time since the last call, capped
\* at the burst, then take one token if there is one
takeToken ==
    LET t1 == Min(EMIT_BURST * TokenScale,
                  tokens + (clock - lastRefill) * EMIT_RATE_PER_SEC)
    IN  IF t1 >= TokenScale THEN [ok |-> TRUE, tokens |-> t1 - TokenScale]
        ELSE [ok |-> FALSE, tokens |-> t1]

ScanIdle(tick) == [pc |-> "idle", i |-> 0, tick |-> tick, raws |-> NoRaws, tNow |-> 0]

\* after path B of symbol i, or a symbol that is skipped
NextSymbol ==
    IF scan.i < NumSymbols
    THEN [scan EXCEPT !.pc = "A", !.i = scan.i + 1]
    ELSE ScanIdle(scan.tick)

\* the timer fires: MGET of the books of the universe, then the clock is read
ScanStart(raws) ==
    /\ scan.pc = "idle"
    /\ scan.tick < MaxTicks
    /\ raws \in Snapshots(clock)
    /\ scan' = [pc |-> "A", i |-> 1, tick |-> scan.tick + 1, raws |-> raws,
                tNow |-> clock]
    /\ UNCHANGED << kvAuto, AUTO_TRADE, inflight, oppStream, approvedStream,
                    ordersNew, ordersFills, arbTrades, delivered, acks, loop,
                    external, hist, riskStream, riskCfg, pending, clock,
                    tokens, lastRefill, scanCfg, meta, intersection,
                    lastDiscover, discVars, peer >>

\* the symbol of the loop is skipped: missing_book or stale_book
skipped ==
    LET b1 == parseBook(scan.raws[scan.i][1])
        b2 == parseBook(scan.raws[scan.i][2])
    IN  b1 = NoBook \/ b2 = NoBook \/ stale(scan.tNow, b1, b2)

\* the candidate the loop is looking at
current ==
    candidate(scan.pc, scan.i, parseBook(scan.raws[scan.i][1]),
              parseBook(scan.raws[scan.i][2]), scanCfg)

\* one path of one symbol (lines 487-545): the books are parsed and checked
\* when the symbol is entered; an admitted path calls emitOpp, whose XADD is
\* accepted
ScanPath ==
    /\ scan.pc \in {"A", "B"}
    /\ IF scan.pc = "A" /\ skipped
       THEN /\ scan' = NextSymbol
            /\ UNCHANGED << tokens, lastRefill, oppStream >>
       ELSE /\ scan' = IF scan.pc = "A" THEN [scan EXCEPT !.pc = "B"] ELSE NextSymbol
            /\ IF current.ok
               THEN /\ tokens' = takeToken.tokens
                    /\ lastRefill' = clock
                    /\ oppStream' = IF takeToken.ok
                                    THEN Append(oppStream,
                                                ScanOpp(clock, current.e, current.legs))
                                    ELSE oppStream
               ELSE UNCHANGED << tokens, lastRefill, oppStream >>
    /\ UNCHANGED << kvAuto, AUTO_TRADE, inflight, approvedStream, ordersNew,
                    ordersFills, arbTrades, delivered, acks, loop, external,
                    hist, riskStream, riskCfg, pending, clock, scanCfg, meta,
                    intersection, lastDiscover, discVars, peer >>

\* an admitted path whose XADD is refused: emitOpp raises after the token was
\* taken, scanOnce has no try block, the promise of the tick is rejected and
\* the timer callback swallows it (line 564)
ScanPathFail ==
    /\ scan.pc \in {"A", "B"}
    /\ ~(scan.pc = "A" /\ skipped)
    /\ current.ok
    /\ takeToken.ok
    /\ tokens' = takeToken.tokens
    /\ lastRefill' = clock
    /\ scan' = ScanIdle(scan.tick)
    /\ hist' = [hist EXCEPT !.xaddFailed = @ + 1]
    /\ UNCHANGED << kvAuto, AUTO_TRADE, inflight, oppStream, approvedStream,
                    ordersNew, ordersFills, arbTrades, delivered, acks, loop,
                    external, riskStream, riskCfg, pending, clock, scanCfg, meta,
                    intersection, lastDiscover, discVars, peer >>

\* a millisecond passes
Tick ==
    /\ clock < MaxClock
    /\ clock' = clock + 1
    /\ UNCHANGED << kvAuto, AUTO_TRADE, inflight, oppStream, approvedStream,
                    ordersNew, ordersFills, arbTrades, delivered, acks, loop,
                    external, hist, riskStream, riskCfg, pending, tokens,
                    lastRefill, scan, scanCfg, meta, intersection,
                    lastDiscover, discVars, peer >>

\* ------------------------------------------------- scanner-options: ids
\* scanner-options-arb/src/index.js 84-216, 250-267
MAX_SYMBOLS == 1
DISCOVER_EVERY_SEC == 30

MaxMeta == 2        \* native ids listed by a venue
MaxDiscClock == 90  \* seconds the discovery clock runs to
MaxDiscOpps == 1    \* opportunities the discovery ticks append

Venues == 1..2

\* a native id, by the pattern its text has: BASE-YYMMDD-STRIKE-CP,
\* BASE-DDMMMYY-STRIKE-CP, BASE-YYYY-MM-DD-STRIKE-CP or none of them.  y, m, d
\* are the numbers the digit groups spell; mon is the month's three letters.
Native(enc, base, y, m, mon, d, strike, cp) ==
    [enc |-> enc, base |-> base, y |-> y, m |-> m, mon |-> mon, d |-> d,
     strike |-> strike, cp |-> cp]
NoId == Native("null", "", 0, 0, "", 0, "", "")

NativeIds ==
    {Native("YYMMDD", "BTC", 24, 9, "", 27, "19000", "C"),
     Native("DDMMMYY", "BTC", 24, 0, "SEP", 27, "19000", "C"),
     Native("ISO", "BTC", 2024, 9, "", 27, "19000", "C"),
     Native("YYMMDD", "btc", 24, 9, "", 27, "19000.0", "c"),
     Native("YYMMDD", "BTC", 24, 9, "", 27, "19000", "P"),
     Native("DDMMMYY", "BTC", 24, 0, "SEP", 27, "0.05", "C"),
     Native("ISO", "BTC", 2024, 9, "", 27, "0.050", "C"),
     Native("YYMMDD", "PEPE", 24, 9, "", 27, "0.0000001", "C"),
     Native("YYMMDD", "BTC", 24, 13, "", 27, "19000", "C"),
     Native("DDMMMYY", "BTC", 24, 0, "XXX", 27, "19000", "C"),
     Native("ISO", "BTC", 1999, 9, "", 27, "19000", "C"),
     Native("YYMMDD", "BTC", 24, 9, "", 27, "0", "C"),
     Native("none", "BTCUSDT", 0, 0, "", 0, "", "")}

\* toUpperCase on the texts that occur
Upper(t) ==
    CASE t = "btc" -> "BTC"
      [] t = "c" -> "C"
      [] OTHER -> t

\* the texts the class [A-Z]+ and the alternative (C|P) match
Bases == {"BTC", "PEPE"}
CallPut == {"C", "P"}

\* the texts the class [0-9.]+ matches
StrikeTexts == {"19000", "19000.0", "0.05", "0.050", "0.0000001", "0"}

\* Number(text), named by String(Number(text)): the shortest decimal
\* rendering, in exponent notation below 1e-6
NumberOf(text) ==
    CASE text = "19000" -> "19000"
      [] text = "19000.0" -> "19000"
      [] text = "0.05" -> "0.05"
      [] text = "0.050" -> "0.05"
      [] text = "0.0000001" -> "1e-7"
      [] text = "0" -> "0"
      [] OTHER -> "NaN"

\* strike > 0
Positive(num) == num \notin {"0", "NaN"}

MONTHS3(name) ==
    CASE name = "JAN" -> 1 [] name = "FEB" -> 2 [] name = "MAR" -> 3
      [] name = "APR" -> 4 [] name = "MAY" -> 5 [] name = "JUN" -> 6
      [] name = "JUL" -> 7 [] name = "AUG" -> 8 [] name = "SEP" -> 9
      [] name = "OCT" -> 10 [] name = "NOV" -> 11 [] name = "DEC" -> 12
      [] OTHER -> 0

Parsed(base, y, m, d, strike, cp) ==
    [base |-> base, y |-> y, m |-> m, d |-> d, strike |-> strike, cp |-> cp]
NoParsed == Parsed("", 0, 0, 0, "", "")

\* parseNativeOptionId (lines 95-151): the three patterns in turn, on the
\* trimmed upper-case text
parseNativeOptionId(native) ==
    LET base    == Upper(native.base)
        cp      == Upper(native.cp)
        strike  == NumberOf(native.strike)
        matches == /\ base \in Bases
                   /\ native.strike \in StrikeTexts
                   /\ cp \in CallPut
    IN  IF native.enc = "YYMMDD" /\ matches
             /\ Positive(strike) /\ native.m >= 1 /\ native.m <= 12
             /\ native.d >= 1 /\ native.d <= 31
        THEN Parsed(base, 2000 + native.y, native.m, native.d, strike, cp)
        ELSE IF native.enc = "DDMMMYY" /\ matches
             /\ Positive(strike) /\ MONTHS3(native.mon) # 0
             /\ native.d >= 1 /\ native.d <= 31
        THEN Parsed(base, 2000 + native.y, MONTHS3(native.mon), native.d, strike, cp)
        ELSE IF native.enc = "ISO" /\ matches
             /\ native.y >= 2000 /\ Positive(strike)
             /\ native.m >= 1 /\ native.m <= 12
             /\ native.d >= 1 /\ native.d <= 31
        THEN Parsed(base, native.y, native.m, native.d, strike, cp)
        ELSE NoParsed

\* toCanonicalId (lines 153-159): BASE-YYYY-MM-DD-STRIKE-CP with
\* String(strike); String never ends in ".0", the replace changes nothing
toCanonicalId(parsed) ==
    IF parsed = NoParsed THEN NoId
    ELSE Native("ISO", parsed.base, parsed.y, parsed.m, "", parsed.d,
                parsed.strike, parsed.cp)

\* the Map of buildCanonMap, in insertion order: << canon, native >> pairs
RECURSIVE buildCanonMap(_)
buildCanonMap(nativeList) ==
    IF nativeList = << >> THEN << >>
    ELSE LET n     == Len(nativeList)
             map   == buildCanonMap(SubSeq(nativeList, 1, n - 1))
             canon == toCanonicalId(parseNativeOptionId(nativeList[n]))
         IN  IF canon # NoId /\ \A k \in 1..Len(map) : map[k][1] # canon
             THEN Append(map, << canon, nativeList[n] >>)
             ELSE map

RECURSIVE intersectCanonMaps(_, _)
intersectCanonMaps(m1, m2) ==
    IF m1 = << >> THEN << >>
    ELSE LET n    == Len(m1)
             out  == intersectCanonMaps(SubSeq(m1, 1, n - 1), m2)
             hits == {k \in 1..Len(m2) : m2[k][1] = m1[n][1]}
         IN  IF hits # {}
             THEN Append(out, [canon |-> m1[n][1], native1 |-> m1[n][2],
                               native2 |-> m2[CHOOSE k \in hits : TRUE][2]])
             ELSE out

\* an adapter lists a native id under meta:<venue>:symbols
PublishSymbol(v, id) ==
    /\ Len(meta[v]) < MaxMeta
    /\ meta' = [meta EXCEPT ![v] = Append(@, id)]
    /\ UNCHANGED << kvAuto, AUTO_TRADE, inflight, oppStream, approvedStream,
                    ordersNew, ordersFills, arbTrades, delivered, acks, loop,
                    external, hist, riskStream, riskCfg, pending, clock,
                    tokens, lastRefill, scan, scanCfg, intersection,
                    lastDiscover, discVars, peer >>

\* the list buildCanonMap walks (line 191): the meta list, or with the key
\* missing the ids of the venue's orderbook:<venue>:* keys
nativeList(v) == IF optMeta[v].up THEN meta[v] ELSE optMeta[v].books

\* discoverIntersection (lines 251-267): the cached pairs while they are
\* fresh, else both maps are rebuilt and intersected, capped at MAX_SYMBOLS;
\* scanOnce returns on no pairs (line 271), else it reads the books
discoverIntersection ==
    /\ LET t == clock \div 1000
       IN  IF Len(intersection) # 0 /\ t - lastDiscover < DISCOVER_EVERY_SEC
           THEN UNCHANGED << intersection, lastDiscover >>
           ELSE LET pairList == intersectCanonMaps(buildCanonMap(nativeList(1)),
                                                   buildCanonMap(nativeList(2)))
                IN  /\ lastDiscover' = t
                    /\ intersection' = SubSeq(pairList, 1, Min(MAX_SYMBOLS, Len(pairList)))
    /\ read' = (Len(intersection') # 0)
    /\ UNCHANGED << kvAuto, AUTO_TRADE, inflight, approvedStream,
                    ordersNew, ordersFills, arbTrades, delivered, acks, loop,
                    external, hist, riskStream, riskCfg, pending, clock,
                    tokens, lastRefill, scan, scanCfg, meta, service,
                    spotMeta, spot, optMeta, peer >>

\* a tick of scanner-options whose books hold no opportunity
OptionsScan == discoverIntersection /\ UNCHANGED oppStream

\* ---------------------------------------------- universe discovery (spot)
\* QUOTE (line 282): the symbols that end with the quote currency
QUOTE == "USDT"

endsWithQuote(s) == s \in {"BTCUSDT", "ETHUSDT", "SOLUSDT"}

\* the value of meta:<venue>:symbols as getMetaSymbols returns it: null for a
\* missing key or unparsable text, else the array
NoList == [up |-> FALSE, list |-> << >>]

SymList(l) == [up |-> TRUE, list |-> l]

SymbolLists == {NoList, SymList(<< >>),
                SymList(<< "BTCUSDT", "ETHBTC", "ETHUSDT", "BTCUSDT" >>),
                SymList(<< "ETHUSDT", "BTCUSDT" >>)}

getMetaSymbols(v) == spotMeta[v]

Among(x, l) == \E n \in 1..Len(l) : l[n] = x

\* uniq (line 444): Array.from(new Set(a)) keeps the first occurrences
RECURSIVE uniq(_)
uniq(a) ==
    IF a = << >> THEN << >>
    ELSE LET front == uniq(SubSeq(a, 1, Len(a) - 1))
             x == a[Len(a)]
         IN IF Among(x, front) THEN front ELSE Append(front, x)

\* intersect (lines 440-443): the elements of a that b holds, in a's order
intersect(a, b) == LET In(x) == Among(x, b) IN SelectSeq(a, In)

slice(a, n) == SubSeq(a, 1, IF Len(a) < n THEN Len(a) ELSE n)

NoSpot == [discovered |-> << >>, lastDiscover |-> 0, symbols |-> << >>]

\* discoverUniverse with the intersection stored whole
discoverUniverse_uncapped ==
    LET t == clock \div 1000
        binance == getMetaSymbols(1)
        bybit == getMetaSymbols(2)
    IN  IF t - spot.lastDiscover < DISCOVER_EVERY_SEC
           /\ Len(spot.discovered) # 0
        THEN [discovered |-> spot.discovered,
              lastDiscover |-> spot.lastDiscover,
              symbols |-> spot.discovered]
        ELSE IF \/ ~ binance.up \/ ~ bybit.up
                \/ Len(binance.list) = 0 \/ Len(bybit.list) = 0
             THEN [discovered |-> << >>, lastDiscover |-> t,
                   symbols |-> << >>]
             ELSE LET b1 == SelectSeq(binance.list, endsWithQuote)
                      b2 == SelectSeq(bybit.list, endsWithQuote)
                      d == intersect(uniq(b1), uniq(b2))
                  IN [discovered |-> d, lastDiscover |-> t, symbols |-> d]

\* discoverUniverse (lines 446-467): the new discovered, lastDiscover and the
\* list handed to scanOnce
discoverUniverse ==
    LET t == clock \div 1000
        binance == getMetaSymbols(1)
        bybit == getMetaSymbols(2)
    IN  IF t - spot.lastDiscover < DISCOVER_EVERY_SEC
           /\ Len(spot.discovered) # 0
        THEN [discovered |-> spot.discovered,
              lastDiscover |-> spot.lastDiscover,
              symbols |-> slice(spot.discovered, MAX_SYMBOLS)]
        ELSE IF \/ ~ binance.up \/ ~ bybit.up
                \/ Len(binance.list) = 0 \/ Len(bybit.list) = 0
             THEN [discovered |-> << >>, lastDiscover |-> t,
                   symbols |-> << >>]
             ELSE LET b1 == SelectSeq(binance.list, endsWithQuote)
                      b2 == SelectSeq(bybit.list, endsWithQuote)
                      d == slice(intersect(uniq(b1), uniq(b2)), MAX_SYMBOLS)
                  IN [discovered |-> d, lastDiscover |-> t, symbols |-> d]

\* a book that crosses the other venue's, read at the tick's time
Crossing == Book(101, 99, clock)

\* what a tick appends for the n-th instrument of its universe when the two
\* books cross (n = 0: no books cross)
tickEmits(n, ids) ==
    IF n = 0 THEN << >>
    ELSE LET c == candidate("A", ids[n], Crossing, Crossing, scanCfg)
         IN IF c.ok THEN << ScanOpp(clock, c.e, c.legs) >> ELSE << >>

\* scanOnce of the spot scanner (lines 470-547): discover, return on an empty
\* universe, else MGET the books of the symbols and walk them
SpotTick(n) ==
    /\ service = "spot"
    /\ LET r == discoverUniverse
       IN /\ n <= Len(r.symbols)
          /\ Len(oppStream) + Len(tickEmits(n, r.symbols)) <= MaxDiscOpps
          /\ spot' = [discovered |-> r.discovered,
                      lastDiscover |-> r.lastDiscover,
                      symbols |-> r.symbols]
          /\ read' = (Len(r.symbols) # 0)
          /\ oppStream' = oppStream \o tickEmits(n, r.symbols)
    /\ UNCHANGED << kvAuto, AUTO_TRADE, inflight, approvedStream,
                    ordersNew, ordersFills, arbTrades, delivered, acks, loop,
                    external, hist, riskStream, riskCfg, pending, clock,
                    tokens, lastRefill, scan, scanCfg, meta, intersection,
                    lastDiscover, service, spotMeta, optMeta, peer >>

\* an exchange adapter rewrites its venue's symbol list, or the key is gone
SetSymbols(v, l) ==
    /\ service = "spot"
    /\ spotMeta[v] # l
    /\ spotMeta' = [spotMeta EXCEPT ![v] = l]
    /\ UNCHANGED << kvAuto, AUTO_TRADE, inflight, oppStream, approvedStream,
                    ordersNew, ordersFills, arbTrades, delivered, acks, loop,
                    external, hist, riskStream, riskCfg, pending, clock,
                    tokens, lastRefill, scan, scanCfg, meta, intersection,
                    lastDiscover, service, spot, optMeta, read,
                    peer >>

\* scanOnce of the options scanner (lines 269-332): discover, return on no
\* pairs, else MGET the books of the pairs and walk them
OptionsTick(n) ==
    /\ service = "options"
    /\ discoverIntersection
    /\ n <= Len(intersection')
    /\ LET out == tickEmits(n, [k \in 1..Len(intersection') |-> intersection'[k].canon])
       IN /\ Len(oppStream) + Len(out) <= MaxDiscOpps
          /\ oppStream' = oppStream \o out

\* what an option venue shows: the meta key (there or missing), its list and
\* the ids of its order-book keys
OptionList(up, list, books) == [up |-> up, list |-> list, books |-> books]

NoMeta == [up |-> TRUE, books |-> << >>]

DiscIds == << Native("YYMMDD", "BTC", 24, 9, "", 27, "19000", "C"),
              Native("YYMMDD", "BTC", 24, 9, "", 27, "19000", "P") >>

OptionLists == {OptionList(FALSE, << >>, << >>),
                OptionList(FALSE, << >>, DiscIds),
                OptionList(TRUE, << >>, DiscIds),
                OptionList(TRUE, DiscIds, DiscIds)}

\* an adapter rewrites its venue's list and books, or the meta key is gone
SetOptions(v, o) ==
    /\ service = "options"
    /\ << optMeta[v].up, meta[v], optMeta[v].books >> # << o.up, o.list, o.books >>
    /\ meta' = [meta EXCEPT ![v] = o.list]
    /\ optMeta' = [optMeta EXCEPT ![v] = [up |-> o.up, books |-> o.books]]
    /\ UNCHANGED << kvAuto, AUTO_TRADE, inflight, oppStream, approvedStream,
                    ordersNew, ordersFills, arbTrades, delivered, acks, loop,
                    external, hist, riskStream, riskCfg, pending, clock,
                    tokens, lastRefill, scan, scanCfg, intersection,
                    lastDiscover, service, spotMeta, spot, read,
                    peer >>

\* time passes between two ticks
SleepSecs == {DISCOVER_EVERY_SEC - 1, DISCOVER_EVERY_SEC}

Sleep(sec) ==
    /\ clock + sec * 1000 <= MaxDiscClock * 1000
    /\ clock' = clock + sec * 1000
    /\ UNCHANGED << kvAuto, AUTO_TRADE, inflight, oppStream, approvedStream,
                    ordersNew, ordersFills, arbTrades, delivered, acks, loop,
                    external, hist, riskStream, riskCfg, pending,
                    tokens, lastRefill, scan, scanCfg, meta, intersection,
                    lastDiscover, discVars, peer >>

\* the scanner at start: a full bucket (line 385), no tick in progress,
\* nothing discovered
ScannerIdle ==
    /\ clock = 0
    /\ tokens = EMIT_BURST * TokenScale
    /\ lastRefill = 0
    /\ scan = ScanIdle(0)
    /\ meta = [v \in Venues |-> << >>]
    /\ intersection = << >>
    /\ lastDiscover = 0
    /\ spotMeta = [v \in Venues |-> NoList]
    /\ spot = NoSpot
    /\ optMeta = [v \in Venues |-> NoMeta]
    /\ read = FALSE
    /\ peer = NoPeer

\* ------------------------------------------------------------------ system
NoHist == [leg0Seen |-> {}, aborted |-> {}, due |-> {}, paused |-> {},
           atFloor |-> {}, decisions |-> << >>, refused |-> << >>,
           xaddFailed |-> 0, flushed |-> {},
           lastPost |-> [by |-> "", v |-> [t |-> "", b |-> FALSE, str |-> "", n |-> 0]]]

Init ==
    /\ kvAuto \in StoreVals
    /\ AUTO_TRADE \in BOOLEAN
    /\ inflight = [c \in CorrIds |-> NoEntry]
    /\ oppStream = << >>
    /\ approvedStream = << >>
    /\ ordersNew = << >>
    /\ ordersFills = << >>
    /\ arbTrades = << >>
    /\ delivered = [g \in Groups |-> 0]
    /\ acks = [g \in Groups |-> [n \in 1..MaxStream |-> 0]]
    /\ loop = [g \in Groups |-> Idle]
    /\ external = 0
    /\ hist = NoHist
    /\ riskStream = << >>
    /\ riskCfg = DefaultRiskConfig
    /\ pending = [c \in CorrIds |-> NoRec]
    /\ ScannerIdle
    /\ service = "spot"
    /\ scanCfg = DefaultScanConfig

Next ==
    \/ refreshToggles
    \/ \E b \in BOOLEAN : postToggles(b)
    \/ \E v \in StoreVals \ {"nil"} : StoreSet(v)
    \/ ExecOppPoll \/ ExecOppDeliver \/ ExecOppMsg
    \/ ExecFillPoll \/ ExecFillDeliver \/ ExecFillMsg
    \/ SimDeliver \/ SimMsg
    \/ AcctDeliver \/ AcctMsg
    \/ \E tpl \in Templates : EmitOpp(tpl)
    \/ EmitApproved(1)
    \/ \E f \in InjectedFills : InjectFill(f)
    \/ InjectOrder
    \/ InjectOpp
    \/ \E t \in InjectedTrades : InjectTrade(t)

Spec == Init /\ [][Next]_vars

\* The timers of the executor (setInterval 200 / 1000) and the loops of the
\* simulator and of accounting keep running: a step of theirs that stays
\* possible is taken.
Fairness ==
    /\ WF_vars(refreshToggles)
    /\ WF_vars(ExecOppPoll) /\ WF_vars(ExecOppDeliver) /\ WF_vars(ExecOppMsg)
    /\ WF_vars(ExecFillPoll) /\ WF_vars(ExecFillDeliver) /\ WF_vars(ExecFillMsg)
    /\ WF_vars(SimDeliver) /\ WF_vars(SimMsg)
    /\ WF_vars(AcctDeliver) /\ WF_vars(AcctMsg)

FairSpec == Spec /\ Fairness

\* The risk engine on its own, under each set of thresholds
RiskInit ==
    /\ kvAuto = "nil"
    /\ AUTO_TRADE = FALSE
    /\ inflight = [c \in CorrIds |-> NoEntry]
    /\ oppStream = << >>
    /\ approvedStream = << >>
    /\ ordersNew = << >>
    /\ ordersFills = << >>
    /\ arbTrades = << >>
    /\ delivered = [g \in Groups |-> 0]
    /\ acks = [g \in Groups |-> [n \in 1..MaxStream |-> 0]]
    /\ loop = [g \in Groups |-> Idle]
    /\ external = 0
    /\ hist = NoHist
    /\ riskStream = << >>
    /\ riskCfg \in RiskConfigs
    /\ pending = [c \in CorrIds |-> NoRec]
    /\ ScannerIdle
    /\ service = "spot"
    /\ scanCfg = DefaultScanConfig

RiskNext ==
    \/ \E tpl \in RiskTemplates \cup {0} : EmitToRisk(tpl)
    \/ RiskDeliver
    \/ RiskMsg

RiskSpec == RiskInit /\ [][RiskNext]_vars

\* Executor and simulator fed with Opportunities that name their id
DupNext ==
    \/ refreshToggles
    \/ \E c \in CorrIds, tpl \in Templates : EmitOppId(c, tpl)
    \/ ExecOppPoll \/ ExecOppDeliver \/ ExecOppMsg
    \/ ExecFillPoll \/ ExecFillDeliver \/ ExecFillMsg
    \/ SimDeliver \/ SimMsg

DupSpec == Init /\ [][DupNext]_vars

\* The order simulator on its own, its bus accepting or refusing a Fill
SimNext ==
    \/ \E ord \in SimOrders : EmitOrder(ord)
    \/ SimDeliver
    \/ SimMsg
    \/ SimMsgFail

SimSpec == Init /\ [][SimNext]_vars

\* The trade assembler on its own
AsmNext ==
    \/ \E f \in AsmFills : EmitFill(f)
    \/ AsmDeliver
    \/ AsmMsg

AsmInit == RiskInit /\ riskCfg = DefaultRiskConfig

AsmSpec == AsmInit /\ [][AsmNext]_vars

\* Executor, simulator and assembler fed by the scanners
PipeNext ==
    \/ refreshToggles
    \/ \E tpl \in Templates : EmitOpp(tpl)
    \/ ExecOppPoll \/ ExecOppDeliver \/ ExecOppMsg
    \/ ExecFillPoll \/ ExecFillDeliver \/ ExecFillMsg
    \/ SimDeliver \/ SimMsg
    \/ AsmDeliver \/ AsmMsg

PipeSpec == Init /\ [][PipeNext]_vars

\* Two executor instances in the group 'executor' and the simulator, fed by
\* the scanners, autoTrade on
TwoInit == Init /\ AUTO_TRADE /\ kvAuto = "true"

TwoNext ==
    \/ \E tpl \in Templates : EmitOpp(tpl)
    \/ ExecOppPoll \/ ExecOppDeliver \/ ExecOppMsg
    \/ ExecFillPoll \/ ExecFillDeliver \/ ExecFillMsg
    \/ PeerOppPoll \/ PeerOppDeliver \/ PeerOppMsg
    \/ PeerFillPoll \/ PeerFillDeliver \/ PeerFillMsg
    \/ SimDeliver \/ SimMsg

TwoSpec == TwoInit /\ [][TwoNext]_vars

\* a scanner appends an Opportunity while the executor's autoTrade is off
EmitOppOff(tpl) == ~ AUTO_TRADE /\ EmitOpp(tpl)

\* Executor and simulator with the toggle going off and on, every Opportunity
\* appended while the toggle is off
BacklogNext ==
    \/ refreshToggles
    \/ \E b \in BOOLEAN : postToggles(b)
    \/ \E v \in StoreVals \ {"nil"} : StoreSet(v)
    \/ \E tpl \in Templates : EmitOppOff(tpl)
    \/ ExecOppPoll \/ ExecOppDeliver \/ ExecOppMsg
    \/ ExecFillPoll \/ ExecFillDeliver \/ ExecFillMsg
    \/ SimDeliver \/ SimMsg

BacklogSpec == Init /\ [][BacklogNext]_vars

\* Executor and simulator fed with Opportunities that name their id, the bus
\* accepting or refusing an Order
FailNext ==
    \/ refreshToggles
    \/ \E b \in BOOLEAN : postToggles(b)
    \/ \E c \in CorrIds, tpl \in Templates : EmitOppId(c, tpl)
    \/ ExecOppPoll \/ ExecOppDeliver \/ ExecOppMsg \/ ExecOppMsgFail
    \/ ExecFillPoll \/ ExecFillDeliver \/ ExecFillMsg \/ ExecFillMsgFail
    \/ SimDeliver \/ SimMsg

FailSpec == Init /\ [][FailNext]_vars

\* The toggle writers and the executor's refresh, with Opportunities consumed
ToggleNext ==
    \/ refreshToggles
    \/ \E v \in ToggleBodies : gwPostToggles(v)
    \/ \E v \in ToggleBodies : execPostToggles(v)
    \/ \E v \in RawStoreVals : StoreSet(v)
    \/ EmitOpp(1)
    \/ ExecOppPoll \/ ExecOppDeliver \/ ExecOppMsg

ToggleSpec == Init /\ [][ToggleNext]_vars

\* the scanner alone
ScanBase ==
    /\ kvAuto = "nil"
    /\ AUTO_TRADE = FALSE
    /\ inflight = [c \in CorrIds |-> NoEntry]
    /\ oppStream = << >>
    /\ approvedStream = << >>
    /\ ordersNew = << >>
    /\ ordersFills = << >>
    /\ arbTrades = << >>
    /\ delivered = [g \in Groups |-> 0]
    /\ acks = [g \in Groups |-> [n \in 1..MaxStream |-> 0]]
    /\ loop = [g \in Groups |-> Idle]
    /\ external = 0
    /\ hist = NoHist
    /\ riskStream = << >>
    /\ riskCfg = DefaultRiskConfig
    /\ pending = [c \in CorrIds |-> NoRec]
    /\ ScannerIdle
    /\ scanCfg \in ScanConfigs

ScanInit == ScanBase /\ service = "spot"

ScanNext ==
    \/ \E raws \in AllSnapshots : ScanStart(raws)
    \/ ScanPath
    \/ ScanPathFail
    \/ Tick

ScanSpec == ScanInit /\ [][ScanNext]_vars

\* the discovery of scanner-options alone
CanonNext ==
    \/ \E v \in Venues, id \in NativeIds : PublishSymbol(v, id)
    \/ OptionsScan

CanonInit == ScanBase /\ service = "options" /\ scanCfg = DefaultScanConfig

CanonSpec == CanonInit /\ [][CanonNext]_vars

\* universe discovery of either scanner: ticks, the venues' lists changing,
\* and seconds passing.  The process starts at a time of day far above the
\* zero lastDiscover holds, so the first tick always discovers.
DiscInit ==
    /\ kvAuto = "nil"
    /\ AUTO_TRADE = FALSE
    /\ inflight = [c \in CorrIds |-> NoEntry]
    /\ oppStream = << >>
    /\ approvedStream = << >>
    /\ ordersNew = << >>
    /\ ordersFills = << >>
    /\ arbTrades = << >>
    /\ delivered = [g \in Groups |-> 0]
    /\ acks = [g \in Groups |-> [n \in 1..MaxStream |-> 0]]
    /\ loop = [g \in Groups |-> Idle]
    /\ external = 0
    /\ hist = NoHist
    /\ riskStream = << >>
    /\ riskCfg = DefaultRiskConfig
    /\ pending = [c \in CorrIds |-> NoRec]
    /\ clock = DISCOVER_EVERY_SEC * 1000
    /\ tokens = EMIT_BURST * TokenScale
    /\ lastRefill = clock
    /\ scan = ScanIdle(0)
    /\ scanCfg = DefaultScanConfig
    /\ meta = [v \in Venues |-> << >>]
    /\ intersection = << >>
    /\ lastDiscover = 0
    /\ service \in {"spot", "options"}
    /\ spotMeta = [v \in Venues |-> NoList]
    /\ spot = NoSpot
    /\ optMeta = [v \in Venues |-> NoMeta]
    /\ read = FALSE
    /\ peer = NoPeer

DiscNext ==
    \/ \E n \in 0..MAX_SYMBOLS : SpotTick(n)
    \/ \E n \in 0..MAX_SYMBOLS : OptionsTick(n)
    \/ \E v \in Venues, l \in SymbolLists : SetSymbols(v, l)
    \/ \E v \in Venues, o \in OptionLists : SetOptions(v, o)
    \/ \E sec \in SleepSecs : Sleep(sec)

DiscSpec == DiscInit /\ [][DiscNext]_vars

\* ------------------------------------------------------------ properties
NumOrders(c, k) == Cardinality({n \in 1..Len(ordersNew) :
                       ordersNew[n].corrId = c /\ ordersNew[n].legIndex = k})

ExecTrades(c) == {n \in 1..Len(arbTrades) :
                     arbTrades[n].corr = c /\ arbTrades[n].source = "executor"}

\* the Opportunity template consumed under corrId c
TplOf(c) == LET n == CHOOSE n \in 1..Len(oppStream) : oppStream[n].id = c
            IN  oppStream[n].tpl

\* the entries of group g that its loop has gone past
Processed(g) == {n \in 1..delivered[g] :
                    loop[g].pc # "msg" \/ n < loop[g].i}

\* the Order at position n of orders.new was written by the executor
ExecOrder(n) == ordersNew[n] # PoisonOrder

\* C1: an Opportunity consumed with autoTrade on whose two Fills are
\* positive and whose PnL exceeds MIN_REALIZED_PNL eventually has exactly one
\* Trade on arb.trades with source "executor", taken and the Opportunity's
\* approved flag, as long as autoTrade stays on.
C1_TradeForFilledOpportunity ==
    \A c \in CorrIds :
        (c \in hist.due) ~>
            \/ ~AUTO_TRADE
            \/ /\ Cardinality(ExecTrades(c)) = 1
               /\ \A n \in ExecTrades(c) :
                     /\ arbTrades[n].taken
                     /\ arbTrades[n].approved = Catalog[TplOf(c)].approved

\* C2: while autoTrade is off, an Opportunity on arb.approved is eventually
\* handed to group executor.
C2_ApprovedConsumedWhenOff ==
    (Len(approvedStream) > 0 /\ ~AUTO_TRADE)
        ~> (delivered["execApproved"] > 0 \/ AUTO_TRADE)

\* positions of the first SELL leg of L (none or one)
FirstSell(L) == {i \in 1..Len(L) :
                    /\ L[i].side = "SELL"
                    /\ \A j \in 1..(i - 1) : L[j].side # "SELL"}

\* leg k (from 1) of L reordered: the first SELL leg in front, the other legs
\* behind it in the order they have in L
ExpectedLeg(L, k) ==
    IF FirstSell(L) = {} THEN L[k]
    ELSE LET s == CHOOSE s \in FirstSell(L) : TRUE
         IN  IF k = 1 THEN L[s] ELSE IF k <= s THEN L[k - 1] ELSE L[k]

\* C3: the Order the executor emits with legIndex i for an Opportunity with
\* legs L carries leg i of L reordered protective-first, the inflight entry
\* holds L in that order, and a Fill recorded at index i of the entry has
\* legIndex i and, when it answers an Order, answers the Order of that leg.
C3_ProtectiveLegFirst ==
    /\ \A n \in 1..Len(ordersNew) :
          ExecOrder(n) =>
              ordersNew[n].leg =
                  ExpectedLeg(Catalog[TplOf(ordersNew[n].corrId)].legs,
                              ordersNew[n].legIndex + 1)
    /\ \A c \in CorrIds :
          inflight[c] # NoEntry =>
              LET L == Catalog[inflight[c].tpl].legs
              IN  /\ inflight[c].tpl = TplOf(c)
                  /\ Len(inflight[c].legs) = Len(L)
                  /\ \A k \in 1..Len(L) : inflight[c].legs[k] = ExpectedLeg(L, k)
                  /\ \A k \in 0..1 :
                        inflight[c].fills[k] # NoFill =>
                            /\ inflight[c].fills[k].corrId = c
                            /\ inflight[c].fills[k].legIndex = k
                            /\ \A n \in 1..Len(ordersNew) :
                                  (/\ ExecOrder(n)
                                   /\ inflight[c].fills[k] = emitFillFromOrder(ordersNew[n]))
                                      => ordersNew[n].leg = ExpectedLeg(L, k + 1)

\* C3 happens: the second Order of a three-leg Opportunity whose first SELL
\* leg is not its first leg is out, and its Fill is recorded
C3_Witness ==
    \E c \in CorrIds :
        /\ HasOrder(c, 1)
        /\ inflight[c] # NoEntry
        /\ inflight[c].tpl = 2
        /\ inflight[c].fills[1] # NoFill

\* C4: an Order with legIndex 1 is on orders.new only if the executor has
\* processed (and gone past) a Fill of leg 0 of the same corrId with
\* filledSize > 0.
C4_Leg1AfterLeg0Fill ==
    \A n \in 1..Len(ordersNew) :
        (ExecOrder(n) /\ ordersNew[n].legIndex = 1) =>
            \E i \in Processed("execFill") :
                /\ ordersFills[i].corrId = ordersNew[n].corrId
                /\ ordersFills[i].legIndex = 0
                /\ ordersFills[i].filledSize > 0

\* C4 happens: a leg 1 Order is out for a corrId that also received a Fill
\* of leg 0 with filledSize 0
C4_Witness ==
    \E c \in CorrIds :
        /\ HasOrder(c, 1)
        /\ \E i \in 1..Len(ordersFills) :
              /\ ordersFills[i].corrId = c
              /\ ordersFills[i].legIndex = 0
              /\ ordersFills[i].filledSize = 0

\* C5: once the executor has processed a Fill of leg 0 with filledSize 0 for
\* a tracked corrId, the entry is gone and stays gone, the Fill is
\* acknowledged, and neither that step nor any later one adds a leg 1 Order
\* or a Trade of the executor for that corrId.
C5_ZeroFillAbort ==
    [][ \A c \in CorrIds :
          /\ (c \in hist'.aborted) => inflight'[c] = NoEntry
          /\ (c \in hist'.aborted /\ c \notin hist.aborted) =>
                /\ loop["execFill"].pc = "msg"
                /\ ordersFills[loop["execFill"].i].corrId = c
                /\ acks'["execFill"][loop["execFill"].i] = 1
          /\ (c \in hist'.aborted) =>
                /\ NumOrders(c, 1)' = NumOrders(c, 1)
                /\ ExecTrades(c)' = ExecTrades(c) ]_vars

\* C5 happens: a corrId was aborted, its leg 0 Order had been sent, and the
\* simulator's Fill of that Order has been processed after the abort
C5_Witness ==
    \E c \in hist.aborted :
        /\ HasOrder(c, 0)
        /\ \E i \in Processed("execFill") :
              /\ ordersFills[i].corrId = c
              /\ ordersFills[i].filledSize > 0

\* C6: whenever the executor's autoTrade is off, the inflight table is empty.
C6_EmptyWhenOff ==
    ~AUTO_TRADE => \A c \in CorrIds : inflight[c] = NoEntry

\* an Order of the executor is appended to orders.new in the step
ExecOrderAppended ==
    /\ Len(ordersNew') = Len(ordersNew) + 1
    /\ ordersNew'[Len(ordersNew')] # PoisonOrder

\* a Trade with source "executor" is appended to arb.trades in the step
ExecTradeAppended ==
    /\ Len(arbTrades') = Len(arbTrades) + 1
    /\ arbTrades'[Len(arbTrades')].source = "executor"

\* one of the executor's loops issues its XREADGROUP in the step
ExecReadStarted ==
    \E g \in {"execOpp", "execFill"} :
        loop[g].pc # "read" /\ loop'[g].pc = "read"

\* C7: while the executor's autoTrade is off it appends no Order and no
\* Trade and starts no read; a refresh that finds toggles:autoTrade false
\* leaves autoTrade off, and autoTrade comes back on only with the store
\* saying true.
C7_NoOutputWhenOff ==
    [][ /\ ~AUTO_TRADE =>
              ~ExecOrderAppended /\ ~ExecTradeAppended /\ ~ExecReadStarted
        /\ (refreshToggles /\ kvAuto = "false") => ~AUTO_TRADE'
        /\ (~AUTO_TRADE /\ AUTO_TRADE') => kvAuto' = "true" ]_vars

\* C7 happens: with autoTrade off the executor has gone through an
\* Opportunity of a batch it held and sent no Order for it
C7_Witness ==
    /\ ~AUTO_TRADE
    /\ \E c \in CorrIds : inflight[c] # NoEntry /\ ~HasOrder(c, 0)

\* C8: a corrId whose leg 0 Order was out and whose leg 0 Fill was not yet
\* processed when autoTrade went from on to off gets no leg 1 Order and no
\* Trade, whenever the late Fill is processed.
C8_LateFillDropped ==
    \A c \in hist.paused :
        /\ ~HasOrder(c, 1)
        /\ ExecTrades(c) = {}

\* C9: no entry is acknowledged more than once by a group, and an entry the
\* group's loop has gone past is acknowledged exactly once.
C9_AckedExactlyOnce ==
    \A g \in Groups : \A n \in 1..MaxStream :
        /\ acks[g][n] <= 1
        /\ n \in Processed(g) => acks[g][n] = 1

\* C10: every entry delivered to a group is eventually acknowledged.
C10_NoPermanentPending ==
    \A g \in Groups : \A n \in 1..MaxStream :
        (delivered[g] >= n) ~> (acks[g][n] >= 1)

\* C11: an entry of arb.approved stems from one consumed entry of
\* scanner.to.risk that parsed and whose evaluation returned approve, no two
\* entries stem from the same one, and every entry the risk engine has gone
\* past - approved, rejected or unparsable - is acknowledged once.
C11_RejectedNeverApproved ==
    /\ \A k \in 1..Len(approvedStream) :
          LET e == approvedStream[k]
          IN  /\ e.id \in Processed("risk")
              /\ riskStream[e.id].tpl # 0
              /\ e.tpl = riskStream[e.id].tpl
              /\ hist.decisions[e.id].ok
              /\ \A j \in 1..Len(approvedStream) :
                    approvedStream[j].id = e.id => j = k
    /\ \A n \in Processed("risk") :
          /\ acks["risk"][n] = 1
          /\ ~hist.decisions[n].ok =>
                \A k \in 1..Len(approvedStream) : approvedStream[k].id # n

\* C11 happens: the engine has gone past an Opportunity it rejected and an
\* entry that does not parse, and nothing is on arb.approved
C11_Witness ==
    /\ Len(hist.decisions) = 2
    /\ loop["risk"].pc = "idle"
    /\ \E n \in 1..2 : hist.decisions[n].reason = "poison"
    /\ \E n \in 1..2 : hist.decisions[n].reason = "edge_below_threshold"
    /\ approvedStream = << >>

\* the gross edge of candidate o: payload.edgeBps when supplied, else
\* (sellPx - buyPx) / mid x 10000; Undefined when neither is available
GrossDefined(o) ==
    \/ o.hasEdge
    \/ /\ HasSide(o.legs, "BUY") /\ HasSide(o.legs, "SELL")
       /\ FirstOfSide(o.legs, "BUY") + FirstOfSide(o.legs, "SELL") > 0

GrossBps(o) ==
    IF o.hasEdge THEN o.edgeBps
    ELSE ((FirstOfSide(o.legs, "SELL") - FirstOfSide(o.legs, "BUY"))
              * 2 * 10000 * BpsScale)
             \div (FirstOfSide(o.legs, "BUY") + FirstOfSide(o.legs, "SELL"))

\* the net edge the engine records: gross less the fee-like costs, to two
\* decimals
NetBps(o) ==
    LET legFees == SumLegs(o.legs, "feeBps", 1)
        fees    == IF legFees > 0 THEN legFees ELSE o.feesAbsBps
    IN  ToFixed2(GrossBps(o) - (fees + o.otherBps))

\* the outcome of the policy table, its checks taken in the order of the
\* table; sides: the outcome of the check on the two sides
PolicyOutcome(o, cfg, sides) ==
    IF o.paper /\ ~cfg.ALLOW_PAPER_ONLY THEN "paper_mode_not_allowed"
    ELSE IF ~sides THEN "missing_side"
    ELSE IF SumLegs(o.legs, "size", 1) > cfg.MAX_TOTAL_SIZE THEN "size_exceeds_cap"
    ELSE IF ~(GrossDefined(o) /\ GrossBps(o) >= cfg.EDGE_MIN_BPS)
         THEN "edge_below_threshold"
    ELSE IF ~(NetBps(o) >= cfg.NET_MIN_BPS) THEN "net_below_threshold"
    ELSE "approved"

BothSides(o) == HasSide(o.legs, "BUY") /\ HasSide(o.legs, "SELL")

\* the verdicts recorded so far agree with the table, the check on the two
\* sides being sides(o)
VerdictsFollow(sides(_)) ==
    \A n \in 1..Len(hist.decisions) :
        riskStream[n].tpl # 0 =>
            LET o == RiskCatalog[riskStream[n].tpl]
            IN  /\ hist.decisions[n].reason = PolicyOutcome(o, riskCfg, sides(o))
                /\ hist.decisions[n].ok = (hist.decisions[n].reason = "approved")

\* C12, as stated: the verdict is the outcome of the policy table, where the
\* second check requires a BUY and a SELL leg under every configuration.
C12_PolicyTable_AsStated ==
    LET sides(o) == BothSides(o)
    IN  VerdictsFollow(sides)

\* C12, amended: the verdict is the outcome of the policy table, where the
\* second check requires a BUY and a SELL leg when REQUIRE_BOTH_SIDES is set.
C12_PolicyTable ==
    LET sides(o) == riskCfg.REQUIRE_BOTH_SIDES => BothSides(o)
    IN  VerdictsFollow(sides)

\* C12 happens: scenario S3 - edgeBps 5 under EDGE_MIN_BPS 20, live mode - is
\* rejected for its edge and nothing is on arb.approved; and an edge equal to
\* the threshold is approved
C12_Witness ==
    /\ Len(hist.decisions) = 2
    /\ \E n \in 1..2 :
          /\ riskStream[n].tpl = 2
          /\ hist.decisions[n].reason = "edge_below_threshold"
    /\ \E n \in 1..2 :
          /\ riskStream[n].tpl = 3
          /\ hist.decisions[n].ok
    /\ Len(approvedStream) = 1

\* C13: orders.fills holds at most one Fill for each (corrId, legIndex),
\* whatever Opportunities the executor consumed - two of the same id
\* included - and whatever Orders the simulator consumed.
C13_MonotoneFills ==
    \A i \in 1..Len(ordersFills) : \A j \in 1..Len(ordersFills) :
        (/\ ordersFills[i].corrId = ordersFills[j].corrId
         /\ ordersFills[i].legIndex = ordersFills[j].legIndex) => i = j

\* the simulator's loop handles the entry it is at, in the step
SimHandles == loop["sim"].pc = "msg" /\ loop'["sim"] # loop["sim"]

\* what a step does to orders.fills and to the acknowledgements, the Fill of
\* a parsed Order ord being of size sizeOf(ord): orders.fills changes only
\* when the simulator handles an entry it has not handled before, a handled
\* Order is acknowledged, and unless the append is refused exactly the Fill
\* of the Order is appended
FillPerOrder(sizeOf(_)) ==
    LET n   == loop["sim"].i
        ord == ordersNew[n]
        F   == [corrId |-> ord.corrId, legIndex |-> ord.legIndex,
                venue |-> ord.leg.venue, side |-> ord.leg.side,
                px |-> ord.leg.estPx, requestedSize |-> sizeOf(ord),
                filledSize |-> sizeOf(ord), mode |-> ord.mode]
    IN  /\ ordersFills' # ordersFills => SimHandles /\ acks["sim"][n] = 0
        /\ SimHandles =>
              /\ acks'["sim"][n] >= 1
              /\ \A m \in 1..MaxStream : m # n => acks'["sim"][m] = acks["sim"][m]
              /\ ordersNew' = ordersNew
              /\ \/ ordersFills' = ordersFills
                 \/ ord # PoisonOrder /\ ordersFills' = Append(ordersFills, F)
        /\ (SimMsg /\ ord # PoisonOrder) => Len(ordersFills') = Len(ordersFills) + 1
        /\ SimMsgFail => ordersFills' = ordersFills

\* C14, as stated: each Order the simulator handles is answered with one
\* Fill that copies corrId, legIndex, venue and side, has px = estPx and
\* requestedSize = filledSize = the Order's size, and the Order is
\* acknowledged whether or not the Fill was appended.
C14_FillPerOrder_AsStated ==
    [][ LET sizeOf(ord) == ord.leg.size
        IN  FillPerOrder(sizeOf) ]_vars

\* C14, amended: the same, with requestedSize = filledSize = the Order's size
\* when the Order has one, and 1 when its size is missing or zero.
C14_FillPerOrder ==
    [][ LET sizeOf(ord) == IF ord.leg.size = 0 THEN 1 ELSE ord.leg.size
        IN  FillPerOrder(sizeOf) ]_vars

\* C14 happens: an Order of leg 1 with size 2 was answered with its Fill, and
\* an Order whose Fill was refused is acknowledged with no Fill on the stream
C14_Witness ==
    /\ Len(ordersNew) = 2 /\ Processed("sim") = {1, 2}
    /\ Len(ordersFills) = 1
    /\ ordersFills[1].legIndex = 1 /\ ordersFills[1].filledSize = 2
    /\ \A n \in 1..2 : ordersNew[n] # PoisonOrder /\ acks["sim"][n] = 1

\* the Fills of corrId c the assembler has gone past
AsmSeen(c) == {n \in Processed("asm") : ordersFills[n].corrId = c}

\* the Trades on arb.trades computed for corrId c from Fills
AsmTrades(c) == {n \in 1..Len(arbTrades) :
                    arbTrades[n].corr = c /\ arbTrades[n].source # "executor"}

\* the assembler has gone past exactly two Fills of c: (c, 0) and (c, 1), one
\* a BUY and one a SELL
PairSeen(c) ==
    /\ Cardinality(AsmSeen(c)) = 2
    /\ \E b \in AsmSeen(c) : \E a \in AsmSeen(c) :
          /\ ordersFills[b].side = "BUY" /\ ordersFills[a].side = "SELL"
          /\ ordersFills[b].legIndex # ordersFills[a].legIndex

\* the Trade at n is the join of the BUY Fill and the SELL Fill seen for c
JoinOf(n, c) ==
    \E b \in AsmSeen(c) : \E a \in AsmSeen(c) :
        /\ ordersFills[b].side = "BUY" /\ ordersFills[a].side = "SELL"
        /\ {arbTrades[n].legs[k] : k \in 1..Len(arbTrades[n].legs)}
               = {AsmLeg(ordersFills[b]), AsmLeg(ordersFills[a])}
        /\ arbTrades[n].realizedPnl =
               (ordersFills[a].px - ordersFills[b].px)
                   * Min(ordersFills[b].filledSize, ordersFills[a].filledSize)

\* C15: once the assembler has gone past the pair of Fills (c, 0) and (c, 1),
\* one BUY and one SELL, arb.trades holds exactly one Trade for c, with
\* source "assembler", the two legs and realizedPnl = (sellPx - buyPx) x
\* min(filledSize), whatever the sign of realizedPnl.
C15_AssemblerTrade ==
    \A c \in CorrIds :
        PairSeen(c) =>
            /\ Cardinality(AsmTrades(c)) = 1
            /\ \A n \in AsmTrades(c) :
                  /\ arbTrades[n].source = "assembler"
                  /\ JoinOf(n, c)

\* the positions on orders.fills of the Fills of corrId c with side side
FillsOf(c, side) == {n \in 1..Len(ordersFills) :
                        ordersFills[n].corrId = c /\ ordersFills[n].side = side}

\* the assembler has gone past every entry of orders.fills
AsmDone == loop["asm"].pc = "idle" /\ delivered["asm"] = Len(ordersFills)

\* C16: once the assembler has gone past all the Fills, what it leaves for a
\* corrId with at most one BUY Fill and at most one SELL Fill is fixed by
\* these Fills alone, not by their positions or by the Fills in between:
\* with both, one Trade with the two legs and realizedPnl = (sellPx - buyPx)
\* x min(filledSize) and no pending entry; with one, no Trade and a pending
\* entry holding that Fill; with none, neither.
C16_ArrivalOrderIrrelevant ==
    AsmDone =>
        \A c \in CorrIds :
            LET B == FillsOf(c, "BUY")
                S == FillsOf(c, "SELL")
            IN  (Cardinality(B) <= 1 /\ Cardinality(S) <= 1) =>
                    IF B # {} /\ S # {}
                    THEN /\ Cardinality(AsmTrades(c)) = 1
                         /\ \A n \in AsmTrades(c) : JoinOf(n, c)
                         /\ pending[c] = NoRec
                    ELSE /\ AsmTrades(c) = {}
                         /\ IF B \cup S = {} THEN pending[c] = NoRec
                            ELSE \A n \in B \cup S :
                                    pending[c] = [legs |-> << ordersFills[n] >>,
                                                  mode |-> "paper"]

\* C16 happens: the SELL Fill of a corrId came first, a Fill of the other
\* corrId in between, then the BUY Fill at another price, and the Trade is out
C16_Witness ==
    /\ AsmDone /\ Len(ordersFills) = 3
    /\ ordersFills[1].side = "SELL" /\ ordersFills[3].side = "BUY"
    /\ ordersFills[1].corrId = ordersFills[3].corrId
    /\ ordersFills[1].corrId \in CorrIds
    /\ ordersFills[2].corrId \in CorrIds \ {ordersFills[1].corrId}
    /\ ordersFills[1].px # ordersFills[3].px
    /\ Len(arbTrades) = 1
    /\ pending[ordersFills[2].corrId] # NoRec

\* a Trade computed for corrId c is appended to arb.trades in the step
AsmTradeAppended(c) ==
    /\ Len(arbTrades') = Len(arbTrades) + 1
    /\ arbTrades'[Len(arbTrades')].corr = c
    /\ arbTrades'[Len(arbTrades')].source # "executor"

\* C17: the pending entry of a corrId is removed in the step that appends
\* the Trade of that corrId and in no other; until then the entry keeps the
\* Fills collected for the corrId.
C17_PendingUntilTrade ==
    [][ \A c \in CorrIds :
          /\ AsmTradeAppended(c) => pending'[c] = NoRec
          /\ (pending[c] # NoRec /\ ~AsmTradeAppended(c)) =>
                /\ pending'[c] # NoRec
                /\ Len(pending'[c].legs) >= Len(pending[c].legs)
                /\ \A k \in 1..Len(pending[c].legs) :
                      pending'[c].legs[k] = pending[c].legs[k] ]_vars

\* C18: every Trade on arb.trades, of the executor or of the assembler, has
\* mode "paper" when the Opportunity it stems from is a paper one and mode
\* "live" when it is not.
C18_ModeProvenance ==
    \A n \in 1..Len(arbTrades) :
        arbTrades[n].corr \in CorrIds =>
            arbTrades[n].mode =
                IF Catalog[TplOf(arbTrades[n].corr)].paper THEN "paper" ELSE "live"

C20_UnknownFillDropped ==
    [][ (ExecFillMsg /\ ordersFills[loop["execFill"].i] # PoisonFill
             /\ inflight[ordersFills[loop["execFill"].i].corrId] = NoEntry) =>
            /\ inflight' = inflight
            /\ ordersNew' = ordersNew
            /\ arbTrades' = arbTrades
            /\ acks'["execFill"][loop["execFill"].i] = 1 ]_vars

\* C20 happens: the executor has gone past a Fill with filledSize > 0 of a
\* corrId no Opportunity ever carried, while trading
C20_Witness ==
    /\ AUTO_TRADE
    /\ \E n \in Processed("execFill") :
          /\ ordersFills[n].corrId \in CorrIds
          /\ ordersFills[n].filledSize > 0
          /\ \A k \in 1..Len(oppStream) : oppStream[k].id # ordersFills[n].corrId

\* the number of refused appends of the Order (c, k)
Refused(c, k) == Cardinality({n \in 1..Len(hist.refused) :
                                 hist.refused[n] = << c, k >>})

\* the Opportunities handed to the executor that carry id c
OppsOf(c) == Cardinality({n \in 1..delivered["execOpp"] : oppStream[n].id = c})

\* C21: the appends of an Order of leg k the executor attempts, accepted or
\* refused, are at most one per consumed Opportunity; the step in which the
\* append of a leg 0 Order is refused leaves the entry of its corrId in the
\* table and acknowledges the Opportunity, and no later step appends an Order
\* of that corrId.
C21_OrdersNeverRetried ==
    [][ \A c \in CorrIds :
          /\ \A k \in 0..1 : NumOrders(c, k)' + Refused(c, k)' <= OppsOf(c)'
          /\ Refused(c, 0)' > Refused(c, 0) =>
                /\ inflight'[c] # NoEntry
                /\ acks'["execOpp"][loop["execOpp"].i] = 1
          /\ Refused(c, 0) > 0 =>
                \A k \in 0..1 : NumOrders(c, k)' = NumOrders(c, k) ]_vars

\* C22: consuming an Opportunity neither replaces nor resets the inflight
\* state - legs, recorded fills - an earlier Opportunity has in the table.
C22_OwnCorrIdPerOpportunity ==
    [][ (loop["execOpp"].pc = "msg" /\ loop'["execOpp"] # loop["execOpp"]) =>
            \A c \in CorrIds :
                inflight[c] # NoEntry => inflight'[c] = inflight[c] ]_vars

\* the meaning of a submitted autoTrade value: "true", "false", or "none"
\* for a value that is not recognized or not there
Meaning(v) ==
    IF v = JBool(TRUE) THEN "true"
    ELSE IF v = JBool(FALSE) THEN "false"
    ELSE IF v \in {JStr("true"), JStr("1"), JStr("yes"), JStr("on"), JStr("TRUE")}
         THEN "true"
    ELSE IF v \in {JStr("false"), JStr("0"), JStr("no"), JStr("off"), JStr(" Off ")}
         THEN "false"
    ELSE "none"

\* C23: a POST /toggles on the api-gateway or on the executor leaves in
\* toggles:autoTrade the string "true" or "false" that the submitted value
\* means, and leaves the key as it is for a value that is not recognized or
\* not there.
C23_CanonicalToggleWrite ==
    [][ hist'.lastPost # hist.lastPost =>
            kvAuto' = IF Meaning(hist'.lastPost.v) = "none" THEN kvAuto
                      ELSE Meaning(hist'.lastPost.v) ]_vars

\* the spellings of true and false that a refresh recognizes
Recognized(str) ==
    Norm(str) \in {"true", "1", "yes", "on", "false", "0", "no", "off"}

\* C24: a refresh that finds toggles:autoTrade absent, or holding a string
\* that is not a recognized spelling of true or false, leaves autoTrade and
\* the inflight table as they are.
C24_RefreshKeepsLastKnown ==
    [][ (refreshToggles /\ (kvAuto = "nil" \/ ~Recognized(kvAuto))) =>
            /\ AUTO_TRADE' = AUTO_TRADE
            /\ inflight' = inflight ]_vars


\* the Fill the executor's fill loop is handling
CurFill == ordersFills[loop["execFill"].i]

\* the executor finishes a Fill that takes the terminal branch for corrId c
TerminalStep(c) ==
    /\ loop["execFill"].pc = "msg"
    /\ loop'["execFill"] # loop["execFill"]
    /\ CurFill # PoisonFill
    /\ CurFill.corrId = c
    /\ FillBranch(inflight[c], CurFill) = "terminal"

\* C25: once the executor has processed the Fill of the terminal leg of a
\* tracked corrId, the corrId is no longer in the inflight table and the
\* Fill is acknowledged, whether or not a Trade was emitted.
C25_TerminalFillClearsEntry ==
    [][ \A c \in CorrIds :
          TerminalStep(c) =>
              /\ inflight'[c] = NoEntry
              /\ acks'["execFill"][loop["execFill"].i] >= 1 ]_vars


\* the executor finishes the first positive Fill of single-leg corrId c
SingleLegStep(c) ==
    /\ loop["execFill"].pc = "msg"
    /\ loop'["execFill"] # loop["execFill"]
    /\ CurFill # PoisonFill
    /\ CurFill.corrId = c
    /\ inflight[c] # NoEntry
    /\ Len(inflight[c].legs) = 1
    /\ CurFill.legIndex = 0
    /\ CurFill.filledSize > 0

\* C26: for an Opportunity with one leg, the first Fill of leg 0 with
\* filledSize > 0 leads straight to the Trade (when the PnL is above the
\* floor and trading is on), no further Order is sent, and the inflight
\* entry is removed.
C26_SingleLegDirectTrade ==
    [][ \A c \in CorrIds :
          SingleLegStep(c) =>
              LET fills == [inflight[c].fills EXCEPT ![0] = CurFill]
              IN  /\ ordersNew' = ordersNew
                  /\ inflight'[c] = NoEntry
                  /\ (tradingEnabled /\ computePnlFromFills(inflight[c].tpl, fills)
                                           > 20000 * MIN_REALIZED_PNL)
                        => /\ Len(arbTrades') = Len(arbTrades) + 1
                           /\ arbTrades'[Len(arbTrades')].corrId = c ]_vars


\* ----------------------------------------------------------------- scanner
\* the scanner finishes a step of the tick, and no XADD was refused in it
ScanStep ==
    /\ scan.pc \in {"A", "B"}
    /\ scan' # scan
    /\ hist'.xaddFailed = hist.xaddFailed

\* both quotes of the symbol are there and neither is older than the limit
Usable(q1, q2) ==
    /\ q1.kind = "book" /\ q2.kind = "book"
    /\ scan.tNow - q1.ts <= MAX_BOOK_AGE_MS
    /\ scan.tNow - q2.ts <= MAX_BOOK_AGE_MS

\* the path buying at pxBuy and selling at pxSell passes the four thresholds:
\* grossBps = 10000 (pxSell - pxBuy) / mid, netBps = grossBps - fees,
\* abs = pxSell - pxBuy, mid = (pxBuy + pxSell) / 2
Qualifies(pxBuy, pxSell) ==
    LET fees == BINANCE_TAKER_BPS + BYBIT_TAKER_BPS
    IN  /\ pxBuy > 0 /\ pxSell > 0
        /\ 20000 * (pxSell - pxBuy) >= scanCfg.MIN_GROSS_BPS * (pxBuy + pxSell)
        /\ 20000 * (pxSell - pxBuy) >= (scanCfg.MIN_NET_BPS + fees) * (pxBuy + pxSell)
        /\ pxSell - pxBuy >= scanCfg.MIN_ABS_SPREAD
        /\ pxBuy + pxSell >= 2 * scanCfg.MIN_NOTIONAL

\* the bucket, refilled for the time since the last call, holds a token
Granted ==
    Min(EMIT_BURST * TokenScale,
        tokens + (clock - lastRefill) * EMIT_RATE_PER_SEC) >= TokenScale

\* C27: in a scan tick the Opportunity of a directional path (BUY at one
\* venue's ask, SELL at the other venue's bid) is appended if and only if
\* both quotes are there, neither is older than MAX_BOOK_AGE_MS (the limit
\* itself is not stale), the four thresholds are met (inclusive) and the
\* rate limiter grants a token; a missing or stale quote on either side
\* suppresses both paths of the symbol.
C27_ScannerAdmission ==
    [][ ScanStep =>
          LET q1    == scan.raws[scan.i][1]
              q2    == scan.raws[scan.i][2]
              buyQ  == IF scan.pc = "A" THEN q1 ELSE q2
              selQ  == IF scan.pc = "A" THEN q2 ELSE q1
              exBuy == IF scan.pc = "A" THEN "binance" ELSE "bybit"
              exSel == IF scan.pc = "A" THEN "bybit" ELSE "binance"
              due   == /\ Usable(q1, q2)
                       /\ Qualifies(buyQ.ask, selQ.bid)
                       /\ Granted
          IN  /\ due =>
                   /\ Len(oppStream') = Len(oppStream) + 1
                   /\ SubSeq(oppStream', 1, Len(oppStream)) = oppStream
                   /\ LET legs == oppStream'[Len(oppStream')].legs
                      IN  /\ Len(legs) = 2
                          /\ legs[1].side = "BUY" /\ legs[1].exchange = exBuy
                          /\ legs[1].estPx = buyQ.ask
                          /\ legs[2].side = "SELL" /\ legs[2].exchange = exSel
                          /\ legs[2].estPx = selQ.bid
                          /\ legs[1].instrumentId = scan.i
                          /\ legs[2].instrumentId = scan.i
              /\ ~due => oppStream' = oppStream
              /\ ~Usable(q1, q2) => ~(scan'.pc = "B" /\ scan'.i = scan.i) ]_vars

\* both paths of symbol 1 were admitted from books at the age limit, with
\* every threshold met exactly
C27_Witness ==
    /\ scanCfg = ScanConfig(200, 180, 2, 100)
    /\ \E m, n \in 1..Len(oppStream) :
          /\ oppStream[m].legs[1].instrumentId = 1
          /\ oppStream[n].legs[1].instrumentId = 1
          /\ oppStream[m].legs[1].exchange = "binance"
          /\ oppStream[n].legs[1].exchange = "bybit"


\* the bucket after the refill of a takeToken call made now
Refilled ==
    Min(EMIT_BURST * TokenScale, tokens + (clock - lastRefill) * EMIT_RATE_PER_SEC)

\* the token count is within [0, EMIT_BURST], and the Opportunities appended
\* between any two of them respect the rate
BucketInv ==
    /\ 0 <= tokens /\ tokens <= EMIT_BURST * TokenScale
    /\ \A m, n \in 1..Len(oppStream) :
          m <= n =>
             (n - m + 1) * TokenScale <=
                 EMIT_BURST * TokenScale
                   + EMIT_RATE_PER_SEC * (oppStream[n].ts - oppStream[m].ts)

\* an append takes exactly one token at the time of the append; a candidate
\* that finds the bucket empty is not appended
BucketStep ==
    /\ Len(oppStream') >= Len(oppStream)
    /\ Len(oppStream') > Len(oppStream) =>
          /\ Len(oppStream') = Len(oppStream) + 1
          /\ tokens' = Refilled - TokenScale
          /\ oppStream'[Len(oppStream')].ts = clock
          /\ oppStream'[Len(oppStream')].legs = current.legs
    /\ (scan.pc \in {"A", "B"} /\ scan' # scan /\ Refilled < TokenScale) =>
          oppStream' = oppStream

\* C28: the token count stays within [0, EMIT_BURST]; an Opportunity is
\* appended only by a call that took exactly one token; a candidate that
\* finds the bucket empty is dropped at once; so the Opportunities appended
\* over any interval number at most EMIT_BURST + EMIT_RATE_PER_SEC * elapsed
\* seconds.
C28_TokenBucket == [] BucketInv /\ [][BucketStep]_vars

\* in the first tick the burst went to the two paths of symbol 1 and path A
\* of symbol 2, admitted with the bucket empty, was dropped
C28_Witness ==
    /\ scan.tick = 1 /\ scan.pc = "B" /\ scan.i = 2
    /\ scanCfg = DefaultScanConfig
    /\ scan.raws[2][1].kind = "book" /\ scan.raws[2][2].kind = "book"
    /\ Len(oppStream) = EMIT_BURST
    /\ \A n \in 1..Len(oppStream) : oppStream[n].legs[1].instrumentId = 1
    /\ tokens < TokenScale


\* the tick goes on after a step: to path B of the symbol when its books are
\* usable, to the next symbol otherwise, and it ends only after the last symbol
TickGoesOn ==
    LET q1 == scan.raws[scan.i][1]
        q2 == scan.raws[scan.i][2]
    IN  /\ scan'.tick = scan.tick
        /\ (scan.pc = "A" /\ Usable(q1, q2)) =>
              (scan'.pc = "B" /\ scan'.i = scan.i)
        /\ (scan.pc = "B" \/ ~Usable(q1, q2)) =>
              IF scan.i < NumSymbols
              THEN scan'.pc = "A" /\ scan'.i = scan.i + 1
              ELSE scan'.pc = "idle"

\* C29: a failure inside a scan tick (a quote that does not parse, a missing
\* side, a stale book, a refused append of an Opportunity) never aborts the
\* tick: the tick continues with the remaining paths and symbols, and once
\* it is over the scanner waits for the timer to start the next tick.
C29_TickSurvivesFailures ==
    [][ (scan.pc \in {"A", "B"} /\ scan' # scan) =>
          /\ TickGoesOn
          /\ scan'.pc = "idle" => scan' = ScanIdle(scan.tick) ]_vars


\* ------------------------------------------------------ canonical option id
canonicalize(native) == toCanonicalId(parseNativeOptionId(native))

\* the native ids the venues list
Listed(v) == {meta[v][k] : k \in 1..Len(meta[v])}

\* what a native id of one of the three encodings says: base, calendar date,
\* strike and C/P
Instrument(n) ==
    [base |-> Upper(n.base),
     date |-> CASE n.enc = "YYMMDD" -> << 2000 + n.y, n.m, n.d >>
                [] n.enc = "DDMMMYY" -> << 2000 + n.y, MONTHS3(n.mon), n.d >>
                [] OTHER -> << n.y, n.m, n.d >>,
     strike |-> NumberOf(n.strike),
     cp |-> Upper(n.cp)]

\* the pairs a discovery made now would find
Pairs == intersectCanonMaps(buildCanonMap(meta[1]), buildCanonMap(meta[2]))

\* C30: for every native id recognized by one of the three encodings
\* (YYMMDD, DDMMMYY, YYYY-MM-DD) the canonical id is itself recognized and
\* canonicalizing it again gives the same id; two native ids that encode the
\* same base, date, strike and C/P in different encodings have the same
\* canonical id, so they intersect in the universe.
C30_CanonicalIdStable ==
    /\ \A v \in Venues : \A n \in Listed(v) :
          canonicalize(n) # NoId =>
              canonicalize(canonicalize(n)) = canonicalize(n)
    /\ \A n1 \in Listed(1), n2 \in Listed(2) :
          (/\ canonicalize(n1) # NoId
           /\ canonicalize(n2) # NoId
           /\ Instrument(n1) = Instrument(n2)) =>
              /\ canonicalize(n1) = canonicalize(n2)
              /\ \E k \in 1..Len(Pairs) : Pairs[k].canon = canonicalize(n1)

\* ---- universe discovery
universe == IF service = "spot" THEN spot.discovered ELSE intersection

lastDisc == IF service = "spot" THEN spot.lastDiscover ELSE lastDiscover

DiscTick == \/ \E n \in 0..MAX_SYMBOLS : SpotTick(n)
            \/ \E n \in 0..MAX_SYMBOLS : OptionsTick(n)

InWindow == (clock \div 1000) - lastDisc < DISCOVER_EVERY_SEC

\* the venue's symbol list is missing or empty
ListGone(v) ==
    IF service = "spot" THEN ~ spotMeta[v].up \/ Len(spotMeta[v].list) = 0
    ELSE ~ optMeta[v].up \/ Len(meta[v]) = 0

\* the venue yields no symbol: its list is empty, or missing with (for the
\* options scanner) no order-book key to fall back on
ListEmpty(v) ==
    IF service = "spot" THEN ~ spotMeta[v].up \/ Len(spotMeta[v].list) = 0
    ELSE Len(nativeList(v)) = 0

NothingDone == universe' = << >> /\ ~ read' /\ oppStream' = oppStream

\* C31 as stated: a tick inside the window of DISCOVER_EVERY_SEC seconds
\* since the last discovery never discovers again, also while the universe
\* is empty; the universe holds at most MAX_SYMBOLS; and a discovery with
\* either venue's list missing or empty leaves the universe empty, reads no
\* quotes and emits nothing.
C31_AsStated ==
    [][DiscTick =>
         /\ InWindow => UNCHANGED << universe, lastDisc >>
         /\ Len(universe') <= MAX_SYMBOLS
         /\ (~ InWindow /\ \E v \in Venues : ListGone(v)) => NothingDone]_vars

\* C31: while the discovered universe is non-empty a tick inside the window
\* of DISCOVER_EVERY_SEC whole seconds since the last discovery keeps the
\* universe and discovers nothing; every other tick discovers (an empty
\* universe is rebuilt on every tick).  The universe and the list a tick
\* scans hold at most MAX_SYMBOLS; a discovery with either venue yielding no
\* symbol leaves the universe empty, and a tick with an empty universe reads
\* no quotes and emits nothing.
C31_DiscoveryThrottle ==
    [][DiscTick =>
         LET cached == InWindow /\ universe # << >>
         IN /\ cached => UNCHANGED << universe, lastDisc >>
            /\ ~ cached => lastDisc' = clock \div 1000
            /\ Len(universe') <= MAX_SYMBOLS
            /\ service = "spot" => Len(spot'.symbols) <= MAX_SYMBOLS
            /\ (~ cached /\ \E v \in Venues : ListEmpty(v)) => NothingDone
            /\ universe' = << >> => ~ read' /\ oppStream' = oppStream]_vars

\* a tick DISCOVER_EVERY_SEC - 1 seconds after the discovery has scanned the
\* kept universe, which the cap cut to MAX_SYMBOLS of the two shared symbols
C31_Witness ==
    /\ service = "spot"
    /\ spotMeta[1] = SymList(<< "BTCUSDT", "ETHBTC", "ETHUSDT", "BTCUSDT" >>)
    /\ spotMeta[2] = SymList(<< "ETHUSDT", "BTCUSDT" >>)
    /\ spot.discovered = << "BTCUSDT" >>
    /\ Len(oppStream) = 1
    /\ oppStream[1].ts = (spot.lastDiscover + DISCOVER_EVERY_SEC - 1) * 1000

\* ---- order emission and registration
\* the fill loop handles the simulator's Fill of a leg 0 Order
Leg0FillStep ==
    /\ loop["execFill"].pc = "msg"
    /\ loop'["execFill"] # loop["execFill"]
    /\ CurFill # PoisonFill
    /\ CurFill.venue # "ext"
    /\ CurFill.legIndex = 0

\* C32: the simulator's Fill of a leg 0 Order finds the inflight entry of its
\* corrId, unless a toggle flush removed the entry after it was registered.
C32_Leg0FillFindsEntry ==
    [][Leg0FillStep /\ inflight[CurFill.corrId] = NoEntry
           => CurFill.corrId \in hist.flushed]_vars

\* ---- two instances in one group
PeerFill == ordersFills[peer.fill.i]

\* an instance finishes a Fill it holds no entry for while the other instance
\* holds the entry
DroppedByStranger ==
    \/ /\ loop["execFill"].pc = "msg"
       /\ loop'["execFill"] # loop["execFill"]
       /\ CurFill # PoisonFill
       /\ inflight[CurFill.corrId] = NoEntry
       /\ peer.inflight[CurFill.corrId] # NoEntry
    \/ /\ peer.fill.pc = "msg"
       /\ peer'.fill # peer.fill
       /\ PeerFill # PoisonFill
       /\ peer.inflight[PeerFill.corrId] = NoEntry
       /\ inflight[PeerFill.corrId] # NoEntry

\* C33: with two instances in the group 'executor', no Fill is acknowledged
\* and dropped by the instance without the inflight entry of its corrId
\* while the other instance holds that entry.
C33_FillReachesHolder == [][~ DroppedByStranger]_vars

\* ---- backlog of the off period
\* C34: while autoTrade is off nothing is delivered to group executor, and
\* an Opportunity appended while it was off is not acknowledged without its
\* leg 0 Order: the backlog is consumed once the toggle is on again.
C34_BacklogNotSkipped ==
    [][/\ ~ AUTO_TRADE =>
              /\ delivered'["execOpp"] = delivered["execOpp"]
              /\ delivered'["execFill"] = delivered["execFill"]
       /\ \A n \in 1..Len(oppStream) :
              (acks'["execOpp"][n] > 0 /\ Len(Catalog[oppStream[n].tpl].legs) >= 1)
                  => (HasOrder(oppStream[n].id, 0))']_vars

\* ---- a Trade needs both legs
\* the fill loop handles a Fill of a leg other than leg 0 and emitTrade gets
\* as far as building the Trade
TradeBuiltStep ==
    /\ loop["execFill"].pc = "msg"
    /\ loop'["execFill"] # loop["execFill"]
    /\ CurFill # PoisonFill
    /\ CurFill.legIndex # 0
    /\ inflight[CurFill.corrId] # NoEntry
    /\ emitTrade(inflight[CurFill.corrId].tpl,
                 [inflight[CurFill.corrId].fills EXCEPT ![CurFill.legIndex] = CurFill])
           = "throw"

\* C35: when the executor builds a Trade on a Fill of a leg other than leg 0,
\* the entry of that corrId holds a recorded Fill of leg 0 (and now of leg 1):
\* no Trade is computed from a single leg.
C35_TradeFromBothLegs ==
    [][TradeBuiltStep => inflight[CurFill.corrId].fills[0] # NoFill]_vars

\* ---- at most two legs are sent
\* the fill loop handles a Fill of leg 1 for an entry it holds
Leg1FillStep ==
    /\ loop["execFill"].pc = "msg"
    /\ loop'["execFill"] # loop["execFill"]
    /\ CurFill # PoisonFill
    /\ CurFill.legIndex = 1
    /\ inflight[CurFill.corrId] # NoEntry

\* the positive Fills of leg 0 of corrId c on orders.fills
Leg0Fills(c) == {i \in 1..Len(ordersFills) :
                    /\ ordersFills[i].corrId = c
                    /\ ordersFills[i].legIndex = 0
                    /\ ordersFills[i].filledSize > 0}

C37_SimFillsPositive ==
    \A n \in 1..Len(ordersFills) :
        /\ ordersFills[n].filledSize = ordersFills[n].requestedSize
        /\ ordersFills[n].filledSize > 0

\* ---- one reading of the stored toggle
\* C38: after a refresh that found a string in toggles:autoTrade, the
\* executor's autoTrade is what the api-gateway reports for that string on
\* GET /toggles and on GET /healthz.
C38_SameReading ==
    [][(refreshToggles /\ kvAuto # "nil") =>
           /\ AUTO_TRADE' = gwGetToggles'
           /\ AUTO_TRADE' = gwHealthz']_vars

====
